---- MODULE Spec2Model ----
(***************************************************************************)
(* FairPlay: the life of one pickup game, from its creation to the rating  *)
(* commit.  The game document and the user documents live in Firestore.    *)
(* A page is one browser session showing the game (GameDetailPage with its *)
(* ScoreSubmission); a user may have the game open on more than one page.  *)
(* A handler evaluates its guards on the snapshot its page renders when    *)
(* the button is pressed, and every await of the handler is a later step,  *)
(* so its reads and writes reach the server interleaved with the steps of  *)
(* the other pages.                                                        *)
(***************************************************************************)
EXTENDS Integers, Sequences, FiniteSets, TLC

VARIABLES
    game,           \* the game document on the server
    users,          \* the user documents on the server
    canCheckIn,     \* per page: isWithinCheckInWindow as of its last render
    loadedPlayers,  \* per page: its `players` state (the profiles it loaded)
    handler,        \* per page: the position and locals of the running handler
    now,            \* the clock, in minutes
    startAttempts,  \* how many times Start was pressed
    nextGames,      \* the next occurrences created for the game (games collection)
    display,        \* what the profile badge and the check-in panel show
    friends         \* the friends collection: the documents ever added

vars == <<game, users, canCheckIn, loadedPlayers, handler, now, startAttempts,
          nextGames, display, friends>>

-----------------------------------------------------------------------------
(* Bounds of the model *)

MaxNow == 40
TickMinutes == 20
MaxScore == 1
MaxStartAttempts == 2

(* Program constants *)

DEFAULT_ELO == 1200
DEFAULT_RELIABILITY_SCORE == 100
ELO_K_FACTOR == 32
CHECK_IN_RADIUS_METERS == 500
CHECK_IN_WINDOW_MINUTES == 15
NO_SHOW_PENALTY_PERCENT == 95

(* The game that was created: its host, start time (minutes) and location *)
(* (metres along a line through the pitch).                               *)

Host == "h"
Users == {"h", "a", "b", "c"}
Pages == {"h1", "h2", "a1", "b1", "c1"}

\* The signed-in user of a page (useAuthContext().user.uid)
uid(page) ==
    CASE page \in {"h1", "h2"} -> "h"
      [] page = "a1" -> "a"
      [] page = "b1" -> "b"
      [] page = "c1" -> "c"

StartTime == 20
GameLocation == 0
Positions == {400, 600}
LobbyMaxPlayers == 2
GameId == "g"
Frequency == "weekly"
\* minElo of a game without a rating requirement (the field is undefined)
NoMinElo == 0
NotLoaded == -1

-----------------------------------------------------------------------------
(* Arrays of the game document *)

includes(arr, x) == \E i \in DOMAIN arr : arr[i] = x

arrayUnion(arr, x) == IF includes(arr, x) THEN arr ELSE Append(arr, x)

arrayRemove(arr, x) == SelectSeq(arr, LAMBDA y : y # x)

Range(arr) == {arr[i] : i \in DOMAIN arr}

-----------------------------------------------------------------------------
(* Geospatial utility and reliability tracker (lib/geolocation.ts) *)

Abs(x) == IF x < 0 THEN -x ELSE x

calculateDistance(point1, point2) == Abs(point2 - point1)

isWithinCheckInRadius(userLocation, gameLocation) ==
    calculateDistance(userLocation, gameLocation) <= CHECK_IN_RADIUS_METERS

\* isWithinCheckInWindow with the end of the window left out
isWithinCheckInWindowEndExcluded(gameStartTime, windowMinutes, t) ==
    /\ t >= gameStartTime - windowMinutes
    /\ t < gameStartTime + windowMinutes

\* now >= windowStart && now <= windowEnd, at the clock value t; the page
\* calls it with the default windowMinutes = CHECK_IN_WINDOW_MINUTES
isWithinCheckInWindow(gameStartTime, windowMinutes, t) ==
    /\ t >= gameStartTime - windowMinutes
    /\ t <= gameStartTime + windowMinutes

\* Math.max(0, windowStart - now), in milliseconds
getTimeUntilCheckInWindow(gameStartTime, windowMinutes, t) ==
    LET diff == ((gameStartTime - windowMinutes) - t) * 60 * 1000
    IN IF diff > 0 THEN diff ELSE 0

\* Nothing is shown yet
NoDisplay ==
    [tier |-> "none", windowMinutes |-> 0, canCheckIn |-> FALSE, timeUntil |-> 0,
     team |-> {}, teamAverage |-> -1, boosted |-> "none", boosts |-> 0,
     games |-> <<>>,
     stats |-> [userId |-> "none", totalGames |-> 0, wins |-> 0, losses |-> 0,
                draws |-> 0, winRate |-> 0, basketballGames |-> 0,
                soccerGames |-> 0, gameHistory |-> <<>>]]

\* A penalty of five points instead of five percent
calculateReliabilityPenaltyFivePoints(currentScore) == currentScore - 5

\* Math.round(currentScore * 0.95): round half up
calculateReliabilityPenalty(currentScore) ==
    (currentScore * NO_SHOW_PENALTY_PERCENT + 50) \div 100

\* The boost without its cap
calculateReliabilityBoostUncapped(currentScore) == currentScore + 1

\* if (currentScore >= 100) return 100; return Math.min(100, currentScore + 1)
calculateReliabilityBoost(currentScore) ==
    IF currentScore >= 100 THEN 100
    ELSE IF currentScore + 1 < 100 THEN currentScore + 1 ELSE 100

-----------------------------------------------------------------------------
(* Rating engine (lib/elo.ts) *)

\* The scale of the fixed-point expected score
Million == 1000000

\* 1 / (1 + 10^(d/400)) in millionths, for d = -EloSpan .. EloSpan
ExpectedTable == <<
    703385, 702183, 700977, 699769, 698559, 697345, 696129, 694910, 693688, 692463,
    691236, 690006, 688774, 687538, 686300, 685060, 683816, 682570, 681322, 680071,
    678817, 677561, 676302, 675040, 673776, 672510, 671241, 669969, 668695, 667418,
    666139, 664858, 663574, 662288, 660999, 659708, 658415, 657119, 655821, 654520,
    653217, 651912, 650605, 649295, 647983, 646669, 645352, 644034, 642713, 641390,
    640065, 638738, 637408, 636077, 634743, 633408, 632070, 630730, 629389, 628045,
    626699, 625351, 624002, 622650, 621297, 619941, 618584, 617225, 615864, 614501,
    613137, 611771, 610402, 609033, 607661, 606288, 604913, 603536, 602158, 600778,
    599397, 598014, 596629, 595243, 593855, 592466, 591076, 589684, 588290, 586895,
    585499, 584101, 582702, 581301, 579900, 578497, 577092, 575687, 574280, 572872,
    571463, 570053, 568641, 567229, 565815, 564400, 562985, 561568, 560150, 558731,
    557312, 555891, 554469, 553047, 551624, 550199, 548774, 547349, 545922, 544495,
    543066, 541638, 540208, 538778, 537347, 535916, 534484, 533051, 531618, 530185,
    528751, 527316, 525881, 524445, 523010, 521573, 520137, 518700, 517263, 515825,
    514387, 512949, 511511, 510072, 508634, 507195, 505756, 504317, 502878, 501439,
    500000, 498561, 497122, 495683, 494244, 492805, 491366, 489928, 488489, 487051,
    485613, 484175, 482737, 481300, 479863, 478427, 476990, 475555, 474119, 472684,
    471249, 469815, 468382, 466949, 465516, 464084, 462653, 461222, 459792, 458362,
    456934, 455505, 454078, 452651, 451226, 449801, 448376, 446953, 445531, 444109,
    442688, 441269, 439850, 438432, 437015, 435600, 434185, 432771, 431359, 429947,
    428537, 427128, 425720, 424313, 422908, 421503, 420100, 418699, 417298, 415899,
    414501, 413105, 411710, 410316, 408924, 407534, 406145, 404757, 403371, 401986,
    400603, 399222, 397842, 396464, 395087, 393712, 392339, 390967, 389598, 388229,
    386863, 385499, 384136, 382775, 381416, 380059, 378703, 377350, 375998, 374649,
    373301, 371955, 370611, 369270, 367930, 366592, 365257, 363923, 362592, 361262,
    359935, 358610, 357287, 355966, 354648, 353331, 352017, 350705, 349395, 348088,
    346783, 345480, 344179, 342881, 341585, 340292, 339001, 337712, 336426, 335142,
    333861, 332582, 331305, 330031, 328759, 327490, 326224, 324960, 323698, 322439,
    321183, 319929, 318678, 317430, 316184, 314940, 313700, 312462, 311226, 309994,
    308764, 307537, 306312, 305090, 303871, 302655, 301441, 300231, 299023, 297817,
    296615
>>

\* The largest rating difference of the table
EloSpan == (Len(ExpectedTable) - 1) \div 2

\* calculateExpectedScore, in millionths
calculateExpectedScore(playerElo, opponentElo) ==
    ExpectedTable[(opponentElo - playerElo) + EloSpan + 1]

\* Math.round(currentElo + k * (actual - expected)), rounding half up;
\* actual2 is twice the actual score (2 win, 1 draw, 0 loss), expected is
\* in millionths, currentElo is an integer
calculateNewElo(currentElo, expected, actual2) ==
    currentElo
      + (ELO_K_FACTOR * (actual2 * Million - 2 * expected) + Million) \div (2 * Million)

RECURSIVE SumOver(_, _)
SumOver(f, S) ==
    IF S = {} THEN 0
    ELSE LET x == CHOOSE y \in S : TRUE IN f[x] + SumOver(f, S \ {x})

\* calculateTeamAverageElo with the mean cut off instead of rounded
calculateTeamAverageEloTruncated(elos) ==
    LET n == Cardinality(DOMAIN elos)
    IN IF n = 0 THEN 0 ELSE SumOver(elos, DOMAIN elos) \div n

\* Math.round(sum / length), 0 for an empty team; elos is a function
\* player -> rating
calculateTeamAverageElo(elos) ==
    LET n == Cardinality(DOMAIN elos)
    IN IF n = 0 THEN 0 ELSE (2 * SumOver(elos, DOMAIN elos) + n) \div (2 * n)

\* processGameResults with every player rated against the average of the
\* player's own team
processGameResultsOwnAverage(team1Elos, team2Elos, team1Score, team2Score) ==
    LET team1Avg == calculateTeamAverageElo(team1Elos)
        team2Avg == calculateTeamAverageElo(team2Elos)
        team1Actual == IF team1Score > team2Score THEN 2
                       ELSE IF team1Score < team2Score THEN 0 ELSE 1
        team2Actual == 2 - team1Actual
    IN [p \in (DOMAIN team1Elos) \cup (DOMAIN team2Elos) |->
          IF p \in DOMAIN team2Elos
          THEN calculateNewElo(team2Elos[p],
                   calculateExpectedScore(team2Elos[p], team2Avg), team2Actual)
          ELSE calculateNewElo(team1Elos[p],
                   calculateExpectedScore(team1Elos[p], team1Avg), team1Actual)]

\* processGameResults with the outcome of team 1 given to both teams
processGameResultsSameOutcome(team1Elos, team2Elos, team1Score, team2Score) ==
    LET team1Avg == calculateTeamAverageElo(team1Elos)
        team2Avg == calculateTeamAverageElo(team2Elos)
        team1Actual == IF team1Score > team2Score THEN 2
                       ELSE IF team1Score < team2Score THEN 0 ELSE 1
        team2Actual == team1Actual
    IN [p \in (DOMAIN team1Elos) \cup (DOMAIN team2Elos) |->
          IF p \in DOMAIN team2Elos
          THEN calculateNewElo(team2Elos[p],
                   calculateExpectedScore(team2Elos[p], team1Avg), team2Actual)
          ELSE calculateNewElo(team1Elos[p],
                   calculateExpectedScore(team1Elos[p], team2Avg), team1Actual)]

\* processGameResults: the new rating of every player of both teams
processGameResults(team1Elos, team2Elos, team1Score, team2Score) ==
    LET team1Avg == calculateTeamAverageElo(team1Elos)
        team2Avg == calculateTeamAverageElo(team2Elos)
        team1Actual == IF team1Score > team2Score THEN 2
                       ELSE IF team1Score < team2Score THEN 0 ELSE 1
        team2Actual == 2 - team1Actual
    IN [p \in (DOMAIN team1Elos) \cup (DOMAIN team2Elos) |->
          IF p \in DOMAIN team2Elos
          THEN calculateNewElo(team2Elos[p],
                   calculateExpectedScore(team2Elos[p], team1Avg), team2Actual)
          ELSE calculateNewElo(team1Elos[p],
                   calculateExpectedScore(team1Elos[p], team2Avg), team1Actual)]

\* getEloTier with 1200 itself still counted as Silver
getEloTierSilverUpTo1200(elo) ==
    IF elo < 1000 THEN "Bronze"
    ELSE IF elo <= 1200 THEN "Silver"
    ELSE IF elo < 1400 THEN "Gold"
    ELSE IF elo < 1600 THEN "Platinum"
    ELSE IF elo < 1800 THEN "Diamond"
    ELSE IF elo < 2000 THEN "Master"
    ELSE "Grandmaster"

\* getEloTier: the first threshold the rating is below
getEloTier(elo) ==
    IF elo < 1000 THEN "Bronze"
    ELSE IF elo < 1200 THEN "Silver"
    ELSE IF elo < 1400 THEN "Gold"
    ELSE IF elo < 1600 THEN "Platinum"
    ELSE IF elo < 1800 THEN "Diamond"
    ELSE IF elo < 2000 THEN "Master"
    ELSE "Grandmaster"

-----------------------------------------------------------------------------
(* Documents, snapshots and handler frames *)

NoResults ==
    [present |-> FALSE, team1 |-> {}, team2 |-> {},
     team1Score |-> 0, team2Score |-> 0, confirmedBy |-> {}]

\* createUserProfileIfNotExists; elo is sports[sport] for the sport of the
\* game and otherElo the rating of the other sport
NewUser ==
    [exists |-> TRUE, elo |-> DEFAULT_ELO, otherElo |-> DEFAULT_ELO,
     reliabilityScore |-> DEFAULT_RELIABILITY_SCORE,
     gamesPlayed |-> 0, gamesAttended |-> 0]

NoUser ==
    [exists |-> FALSE, elo |-> 0, otherElo |-> 0, reliabilityScore |-> 0,
     gamesPlayed |-> 0, gamesAttended |-> 0]

\* A game without a recurrence descriptor (createGame stores the descriptor
\* only when its frequency is not 'none')
NoRecurrence == [frequency |-> "none", parentGameId |-> "none"]

\* createGame: the host is the only player, nobody is checked in, the
\* status is open
createGame(hostId, gameId, input) ==
    [gameId |-> gameId, hostId |-> hostId, sport |-> input.sport,
     location |-> input.location, duration |-> input.duration,
     maxPlayers |-> input.maxPlayers, skillLevel |-> input.skillLevel,
     startTime |-> input.startTime, minElo |-> input.minElo,
     recurrence |-> IF input.recurrence.frequency # "none"
                    THEN input.recurrence ELSE NoRecurrence,
     players |-> <<hostId>>, checkedIn |-> {}, status |-> "open",
     results |-> NoResults]

\* Times are minutes
DaysToMinutes(days) == days * 24 * 60

\* The document id addDoc gives the next occurrence
NextGameId == "g2"

\* createNextRecurringGame with the original of the chain forgotten: the
\* next occurrence is linked to the game it was created from
createNextRecurringGameLinkedToLast(completedGame, t, docId) ==
    IF completedGame.recurrence.frequency = "none" THEN {}
    ELSE LET weeksToAdd == IF completedGame.recurrence.frequency = "weekly" THEN 1 ELSE 2
             nextStart == completedGame.startTime + DaysToMinutes(weeksToAdd * 7)
             maxFutureDate == t + DaysToMinutes(30)
         IN  IF nextStart > maxFutureDate THEN {}
             ELSE {createGame(completedGame.hostId, docId,
                      [sport |-> completedGame.sport,
                       location |-> completedGame.location,
                       startTime |-> nextStart,
                       duration |-> completedGame.duration,
                       maxPlayers |-> completedGame.maxPlayers,
                       skillLevel |-> completedGame.skillLevel,
                       minElo |-> completedGame.minElo,
                       recurrence |->
                          [frequency |-> completedGame.recurrence.frequency,
                           parentGameId |-> completedGame.gameId]])}

\* createNextRecurringGame with one week added for every frequency
createNextRecurringGameAlwaysWeekly(completedGame, t, docId) ==
    IF completedGame.recurrence.frequency = "none" THEN {}
    ELSE LET weeksToAdd == 1
             nextStart == completedGame.startTime + DaysToMinutes(weeksToAdd * 7)
             maxFutureDate == t + DaysToMinutes(30)
         IN  IF nextStart > maxFutureDate THEN {}
             ELSE {createGame(completedGame.hostId, docId,
                      [sport |-> completedGame.sport,
                       location |-> completedGame.location,
                       startTime |-> nextStart,
                       duration |-> completedGame.duration,
                       maxPlayers |-> completedGame.maxPlayers,
                       skillLevel |-> completedGame.skillLevel,
                       minElo |-> completedGame.minElo,
                       recurrence |->
                          [frequency |-> completedGame.recurrence.frequency,
                           parentGameId |->
                              IF completedGame.recurrence.parentGameId # "none"
                              THEN completedGame.recurrence.parentGameId
                              ELSE completedGame.gameId]])}

\* createNextRecurringGame with the 30 days counted from the start of the
\* completed game instead of from the clock
createNextRecurringGameGuardFromStart(completedGame, t, docId) ==
    IF completedGame.recurrence.frequency = "none" THEN {}
    ELSE LET weeksToAdd == IF completedGame.recurrence.frequency = "weekly" THEN 1 ELSE 2
             nextStart == completedGame.startTime + DaysToMinutes(weeksToAdd * 7)
             maxFutureDate == completedGame.startTime + DaysToMinutes(30)
         IN  IF nextStart > maxFutureDate THEN {}
             ELSE {createGame(completedGame.hostId, docId,
                      [sport |-> completedGame.sport,
                       location |-> completedGame.location,
                       startTime |-> nextStart,
                       duration |-> completedGame.duration,
                       maxPlayers |-> completedGame.maxPlayers,
                       skillLevel |-> completedGame.skillLevel,
                       minElo |-> completedGame.minElo,
                       recurrence |->
                          [frequency |-> completedGame.recurrence.frequency,
                           parentGameId |->
                              IF completedGame.recurrence.parentGameId # "none"
                              THEN completedGame.recurrence.parentGameId
                              ELSE completedGame.gameId]])}

\* createNextRecurringGame at time t: the set of games it creates (empty
\* where it returns null), docId being the id addDoc gives the new
\* document.  No handler and no service function calls it.
createNextRecurringGame(completedGame, t, docId) ==
    IF completedGame.recurrence.frequency = "none" THEN {}
    ELSE LET weeksToAdd == IF completedGame.recurrence.frequency = "weekly" THEN 1 ELSE 2
             nextStart == completedGame.startTime + DaysToMinutes(weeksToAdd * 7)
             maxFutureDate == t + DaysToMinutes(30)
         IN  IF nextStart > maxFutureDate THEN {}
             ELSE {createGame(completedGame.hostId, docId,
                      [sport |-> completedGame.sport,
                       location |-> completedGame.location,
                       startTime |-> nextStart,
                       duration |-> completedGame.duration,
                       maxPlayers |-> completedGame.maxPlayers,
                       skillLevel |-> completedGame.skillLevel,
                       minElo |-> completedGame.minElo,
                       recurrence |->
                          [frequency |-> completedGame.recurrence.frequency,
                           parentGameId |->
                              IF completedGame.recurrence.parentGameId # "none"
                              THEN completedGame.recurrence.parentGameId
                              ELSE completedGame.gameId]])}

\* The game of the scenario: created by Host, repeated weekly, open to
\* every rating
NewGame(maxPlayers) ==
    createGame(Host, GameId,
               [sport |-> "basketball", location |-> GameLocation,
                startTime |-> StartTime, duration |-> 60,
                maxPlayers |-> maxPlayers, skillLevel |-> "casual",
                minElo |-> NoMinElo,
                recurrence |-> [frequency |-> Frequency, parentGameId |-> "none"]])

Idle ==
    [at |-> "idle", todo |-> <<>>, results |-> NoResults, read |-> 0,
     readAttended |-> 0, target |-> "none"]

\* The constants GameDetailPage derives from the snapshot it renders
isHost(page) == uid(page) = game.hostId
isJoined(page) == includes(game.players, uid(page))
isCheckedIn(page) == uid(page) \in game.checkedIn
\* meetsEloRequirement: the rating is read from the live profile of the
\* signed-in user (useAuth), 0 when there is no profile
meetsEloRequirement(page) ==
    \/ game.minElo = NoMinElo
    \/ (IF users[uid(page)].exists THEN users[uid(page)].elo ELSE 0) >= game.minElo

isFull == Len(game.players) >= game.maxPlayers

\* The profiles the loadPlayers effect of a page puts in its `players`
\* state for the snapshot g (handleStartGame reads their reliabilityScore)
PlayerData(g) ==
    [u \in Users |-> IF includes(g.players, u) /\ users[u].exists
                     THEN users[u].reliabilityScore ELSE NotLoaded]

\* A write to the game document: every open page receives the snapshot g,
\* renders it and reloads the profiles of its players
Snapshot(g) ==
    /\ canCheckIn' = [p \in Pages |-> isWithinCheckInWindow(g.startTime, CHECK_IN_WINDOW_MINUTES, now)]
    /\ loadedPlayers' = [p \in Pages |-> PlayerData(g)]

\* A handler that starts or ends (setActionLoading) re-renders its own page
RenderPage(page) ==
    /\ canCheckIn' = [canCheckIn EXCEPT ![page] = isWithinCheckInWindow(game.startTime, CHECK_IN_WINDOW_MINUTES, now)]
    /\ UNCHANGED loadedPlayers

Participants(r) == r.team1 \cup r.team2

\* The pages that are open; a page that is not open runs no handler
Closed == [Idle EXCEPT !.at = "closed"]

InitPages(open) ==
    /\ now = 0
    /\ canCheckIn = [p \in Pages |-> isWithinCheckInWindow(game.startTime, CHECK_IN_WINDOW_MINUTES, 0)]
    /\ loadedPlayers = [p \in Pages |-> PlayerData(game)]
    /\ handler = [p \in Pages |-> IF p \in open THEN Idle ELSE Closed]
    /\ startAttempts = 0
    /\ nextGames = {}
    /\ friends = <<>>
    /\ display = NoDisplay

\* After createGame: three users with a page each, or the host with two
\* pages and one other user
Init ==
    /\ game = NewGame(LobbyMaxPlayers)
    /\ \E missing \in SUBSET {"b"} :
          users = [u \in Users |-> IF u \in missing THEN NoUser ELSE NewUser]
    /\ \E open \in {{"h1", "a1", "b1"}, {"h1", "h2", "a1"}} : InitPages(open)

-----------------------------------------------------------------------------
(* The clock *)

Tick ==
    /\ now + TickMinutes <= MaxNow
    /\ now' = now + TickMinutes
    /\ UNCHANGED <<game, users, canCheckIn, loadedPlayers, handler, startAttempts>>
    /\ UNCHANGED <<nextGames, display, friends>>

-----------------------------------------------------------------------------
(* Join, leave, cancel *)

\* handleJoin: the button is rendered for a signed-in user who is not
\* joined, while the game is open, and is enabled while it is not full
handleJoin(page) ==
    /\ handler[page].at = "idle"
    /\ game.status = "open"
    /\ ~isJoined(page)
    /\ ~isFull
    /\ meetsEloRequirement(page)
    /\ handler' = [handler EXCEPT ![page].at = "joinGame"]
    /\ RenderPage(page)
    /\ UNCHANGED <<game, users, now, startAttempts>>
    /\ UNCHANGED <<nextGames, display, friends>>

\* joinGame's updateDoc
joinGame(page) ==
    /\ handler[page].at = "joinGame"
    /\ game' = [game EXCEPT !.players = arrayUnion(@, uid(page))]
    /\ handler' = [handler EXCEPT ![page] = Idle]
    /\ Snapshot(game')
    /\ UNCHANGED <<users, now, startAttempts>>
    /\ UNCHANGED <<nextGames, display, friends>>

\* handleLeave with the Leave button rendered for the host as well
handleLeaveRenderedForHost(page) ==
    /\ handler[page].at = "idle"
    /\ game.status = "open"
    /\ isJoined(page)
    /\ handler' = [handler EXCEPT ![page].at = "leaveGame"]
    /\ RenderPage(page)
    /\ UNCHANGED <<game, users, now, startAttempts>>
    /\ UNCHANGED <<nextGames, display, friends>>

\* handleLeave: the button is rendered for a joined user who is not the
\* host, while the game is open
handleLeave(page) ==
    /\ handler[page].at = "idle"
    /\ game.status = "open"
    /\ isJoined(page)
    /\ ~isHost(page)
    /\ handler' = [handler EXCEPT ![page].at = "leaveGame"]
    /\ RenderPage(page)
    /\ UNCHANGED <<game, users, now, startAttempts>>
    /\ UNCHANGED <<nextGames, display, friends>>

\* leaveGame's updateDoc
leaveGame(page) ==
    /\ handler[page].at = "leaveGame"
    /\ game' = [game EXCEPT !.players = arrayRemove(@, uid(page))]
    /\ handler' = [handler EXCEPT ![page] = Idle]
    /\ Snapshot(game')
    /\ UNCHANGED <<users, now, startAttempts>>
    /\ UNCHANGED <<nextGames, display, friends>>

\* handleCancelGame: the button is rendered for the joined host while the
\* game is open
handleCancelGame(page) ==
    /\ handler[page].at = "idle"
    /\ game.status = "open"
    /\ isJoined(page)
    /\ isHost(page)
    /\ handler' = [handler EXCEPT ![page].at = "cancelGame"]
    /\ RenderPage(page)
    /\ UNCHANGED <<game, users, now, startAttempts>>
    /\ UNCHANGED <<nextGames, display, friends>>

\* cancelGame's updateDoc
cancelGame(page) ==
    /\ handler[page].at = "cancelGame"
    /\ game' = [game EXCEPT !.status = "cancelled"]
    /\ handler' = [handler EXCEPT ![page] = Idle]
    /\ Snapshot(game')
    /\ UNCHANGED <<users, now, startAttempts>>
    /\ UNCHANGED <<nextGames, display, friends>>

-----------------------------------------------------------------------------
(* Check-in *)

\* handleCheckIn: the button is rendered for a joined user who is not
\* checked in, while the game is open and the page rendered it inside the
\* check-in window; the position is checked on the page
handleCheckIn(page, position) ==
    /\ handler[page].at = "idle"
    /\ game.status = "open"
    /\ isJoined(page)
    /\ canCheckIn[page]
    /\ ~isCheckedIn(page)
    /\ handler' = [handler EXCEPT ![page].at =
                      IF isWithinCheckInRadius(position, GameLocation)
                      THEN "checkInToGame" ELSE "idle"]
    /\ RenderPage(page)
    /\ UNCHANGED <<game, users, now, startAttempts>>
    /\ UNCHANGED <<nextGames, display, friends>>

\* checkInToGame's getDoc and its checks
checkInToGame(page) ==
    /\ handler[page].at = "checkInToGame"
    /\ IF includes(game.players, uid(page)) /\ game.status = "open"
       THEN /\ handler' = [handler EXCEPT ![page].at = "checkIn_write"]
            /\ UNCHANGED <<canCheckIn, loadedPlayers>>
       ELSE /\ handler' = [handler EXCEPT ![page] = Idle]
            /\ RenderPage(page)
    /\ UNCHANGED <<game, users, now, startAttempts>>
    /\ UNCHANGED <<nextGames, display, friends>>

\* checkInToGame's updateDoc
checkInWrite(page) ==
    /\ handler[page].at = "checkIn_write"
    /\ game' = [game EXCEPT !.checkedIn = @ \cup {uid(page)}]
    /\ handler' = [handler EXCEPT ![page] = Idle]
    /\ Snapshot(game')
    /\ UNCHANGED <<users, now, startAttempts>>
    /\ UNCHANGED <<nextGames, display, friends>>

-----------------------------------------------------------------------------
(* Start *)

\* The no-show players the loop of handleStartGame will penalise, in the
\* order of the players array, each with the reliability the page computes
\* from the profile it loaded
NoShows(page) ==
    LET penalised == SelectSeq(game.players,
                        LAMBDA p : /\ p \notin game.checkedIn
                                   /\ loadedPlayers[page][p] # NotLoaded)
    IN [i \in DOMAIN penalised |->
          [id |-> penalised[i],
           newReliability |->
               calculateReliabilityPenalty(loadedPlayers[page][penalised[i]])]]

\* handleStartGame with the Start button rendered although nobody is
\* checked in
handleStartGameWithoutCheckIn(page) ==
    /\ handler[page].at = "idle"
    /\ startAttempts < MaxStartAttempts
    /\ game.status = "open"
    /\ isJoined(page)
    /\ isHost(page)
    /\ canCheckIn[page]
    /\ handler' = [handler EXCEPT ![page].at = "start", ![page].todo = NoShows(page)]
    /\ startAttempts' = startAttempts + 1
    /\ RenderPage(page)
    /\ UNCHANGED <<game, users, now>>
    /\ UNCHANGED <<nextGames, display, friends>>

\* handleStartGame is entered: the button is rendered for the joined host
\* while the game is open, the page rendered it inside the check-in window
\* and somebody is checked in
handleStartGame(page) ==
    /\ handler[page].at = "idle"
    /\ startAttempts < MaxStartAttempts
    /\ game.status = "open"
    /\ isJoined(page)
    /\ isHost(page)
    /\ canCheckIn[page]
    /\ Cardinality(game.checkedIn) > 0
    /\ handler' = [handler EXCEPT ![page].at = "start", ![page].todo = NoShows(page)]
    /\ startAttempts' = startAttempts + 1
    /\ RenderPage(page)
    /\ UNCHANGED <<game, users, now>>
    /\ UNCHANGED <<nextGames, display, friends>>

\* updateUserReliability(playerId, newReliability) for the next no-show
updateUserReliability(page) ==
    /\ handler[page].at = "start"
    /\ handler[page].todo # <<>>
    /\ LET p == Head(handler[page].todo)
       IN users' = [users EXCEPT ![p.id].reliabilityScore = p.newReliability]
    /\ handler' = [handler EXCEPT ![page].at = "incrementUserGames"]
    /\ UNCHANGED <<game, canCheckIn, loadedPlayers, now, startAttempts>>
    /\ UNCHANGED <<nextGames, display, friends>>

\* The awaited write of handleStartGame (updateUserReliability of the next
\* no-show, or updateGameStatus after the loop) is rejected: the catch block
\* ends the handler and the status is not written
startGameFails(page) ==
    /\ handler[page].at = "start"
    /\ handler' = [handler EXCEPT ![page] = Idle]
    /\ RenderPage(page)
    /\ UNCHANGED <<game, users, now, startAttempts>>
    /\ UNCHANGED <<nextGames, display, friends>>

\* incrementUserGames(playerId, false): getDoc
incrementUserGamesRead(page) ==
    /\ handler[page].at = "incrementUserGames"
    /\ LET p == Head(handler[page].todo)
       IN handler' = [handler EXCEPT
             ![page].at = IF users[p.id].exists THEN "increment_write" ELSE "start",
             ![page].todo = IF users[p.id].exists THEN @ ELSE Tail(@),
             ![page].read = IF users[p.id].exists THEN users[p.id].gamesPlayed ELSE 0,
             ![page].readAttended =
                 IF users[p.id].exists THEN users[p.id].gamesAttended ELSE 0]
    /\ UNCHANGED <<game, users, canCheckIn, loadedPlayers, now, startAttempts>>
    /\ UNCHANGED <<nextGames, display, friends>>

\* incrementUserGames(playerId, false): updateDoc with the counters read;
\* gamesAttended is written back as read
incrementUserGames(page) ==
    /\ handler[page].at = "increment_write"
    /\ LET p == Head(handler[page].todo)
       IN users' = [users EXCEPT ![p.id].gamesPlayed = handler[page].read + 1,
                                 ![p.id].gamesAttended = handler[page].readAttended]
    /\ handler' = [handler EXCEPT ![page].at = "start", ![page].todo = Tail(@),
                                  ![page].read = 0, ![page].readAttended = 0]
    /\ UNCHANGED <<game, canCheckIn, loadedPlayers, now, startAttempts>>
    /\ UNCHANGED <<nextGames, display, friends>>

\* updateGameStatus(gameId, 'in_progress') after the loop
updateGameStatus(page) ==
    /\ handler[page].at = "start"
    /\ handler[page].todo = <<>>
    /\ game' = [game EXCEPT !.status = "in_progress"]
    /\ handler' = [handler EXCEPT ![page] = Idle]
    /\ Snapshot(game')
    /\ UNCHANGED <<users, now, startAttempts>>
    /\ UNCHANGED <<nextGames, display, friends>>

-----------------------------------------------------------------------------
(* Results: submit, confirm, rating commit (ScoreSubmission) *)

\* The teams the host can build on the score form, which is rendered while
\* the game is in progress: the buttons move a checked-in player that is in
\* no team into one team (handleAddToTeam); handleSubmitScore refuses an
\* empty team
TeamChoices ==
    IF game.status # "in_progress" THEN {}
    ELSE {t \in (SUBSET game.checkedIn) \X (SUBSET game.checkedIn) :
             /\ t[1] # {}
             /\ t[2] # {}
             /\ t[1] \cap t[2] = {}}

\* handleSubmitScore: the form is rendered for the host while the game is
\* in progress
handleSubmitScore(page, team1, team2, team1Score, team2Score) ==
    /\ handler[page].at = "idle"
    /\ isHost(page)
    /\ game.status = "in_progress"
    /\ <<team1, team2>> \in TeamChoices
    /\ handler' = [handler EXCEPT
          ![page].at = "submitGameResults",
          ![page].results = [present |-> TRUE, team1 |-> team1, team2 |-> team2,
                             team1Score |-> team1Score, team2Score |-> team2Score,
                             confirmedBy |-> {}]]
    /\ UNCHANGED <<game, users, canCheckIn, loadedPlayers, now, startAttempts>>
    /\ UNCHANGED <<nextGames, display, friends>>

\* submitGameResults' getDoc and its validation
submitGameResults(page) ==
    /\ handler[page].at = "submitGameResults"
    /\ LET results == handler[page].results
           accepted == /\ game.status = "in_progress"
                       /\ \A p \in Participants(results) : includes(game.players, p)
                       /\ results.team1Score >= 0
                       /\ results.team2Score >= 0
       IN handler' = [handler EXCEPT ![page] =
                         IF accepted THEN [@ EXCEPT !.at = "submit_write"] ELSE Idle]
    /\ UNCHANGED <<game, users, canCheckIn, loadedPlayers, now, startAttempts>>
    /\ UNCHANGED <<nextGames, display, friends>>

\* submitGameResults' updateDoc
submitWrite(page) ==
    /\ handler[page].at = "submit_write"
    /\ game' = [game EXCEPT !.results = handler[page].results,
                            !.status = "pending_results"]
    /\ handler' = [handler EXCEPT ![page] = Idle]
    /\ Snapshot(game')
    /\ UNCHANGED <<users, now, startAttempts>>
    /\ UNCHANGED <<nextGames, display, friends>>

\* handleConfirmScore: the button is rendered while the game is pending
\* with results the user has not confirmed; the handler keeps the results
\* of the snapshot it was rendered from
handleConfirmScore(page) ==
    /\ handler[page].at = "idle"
    /\ game.status = "pending_results"
    /\ game.results.present
    /\ uid(page) \notin game.results.confirmedBy
    /\ handler' = [handler EXCEPT ![page].at = "confirmGameResults",
                                  ![page].results = game.results]
    /\ UNCHANGED <<game, users, canCheckIn, loadedPlayers, now, startAttempts>>
    /\ UNCHANGED <<nextGames, display, friends>>

\* confirmGameResults' getDoc and its checks
confirmGameResults(page) ==
    /\ handler[page].at = "confirmGameResults"
    /\ LET accepted == /\ game.status = "pending_results"
                       /\ uid(page) \in Participants(game.results)
                       /\ uid(page) \notin game.results.confirmedBy
       IN handler' = [handler EXCEPT ![page] =
                         IF accepted THEN [@ EXCEPT !.at = "confirm_write"] ELSE Idle]
    /\ UNCHANGED <<game, users, canCheckIn, loadedPlayers, now, startAttempts>>
    /\ UNCHANGED <<nextGames, display, friends>>

\* The majority check with confirmations >= totalPlayers / 2
MajorityConfirmedAtHalf(results) ==
    LET totalPlayers == Cardinality(results.team1) + Cardinality(results.team2)
        confirmations == Cardinality(results.confirmedBy) + 1
    IN 2 * confirmations >= totalPlayers

\* "Check if majority confirmed", on the results the handler was rendered
\* from: confirmations > totalPlayers / 2
MajorityConfirmed(results) ==
    LET totalPlayers == Cardinality(results.team1) + Cardinality(results.team2)
        confirmations == Cardinality(results.confirmedBy) + 1
    IN 2 * confirmations > totalPlayers

\* confirmGameResults' updateDoc, then the majority check of the handler
confirmWrite(page) ==
    /\ handler[page].at = "confirm_write"
    /\ game' = [game EXCEPT !.results.confirmedBy = @ \cup {uid(page)}]
    /\ handler' = [handler EXCEPT ![page] =
                      IF MajorityConfirmed(handler[page].results)
                      THEN [@ EXCEPT !.at = "processEloUpdatesTransactional"]
                      ELSE Idle]
    /\ Snapshot(game')
    /\ UNCHANGED <<users, now, startAttempts>>
    /\ UNCHANGED <<nextGames, display, friends>>

\* The ratings the transaction computes from the profiles it reads
NewRatings(results) ==
    LET team1Elos == [p \in results.team1 |-> users[p].elo]
        team2Elos == [p \in results.team2 \ results.team1 |-> users[p].elo]
    IN processGameResults(team1Elos, team2Elos,
                          results.team1Score, results.team2Score)

\* Writes that reach the profiles of team 1 only
CommitWritesTeam1Only(results) ==
    LET newRatings == NewRatings(results)
    IN [p \in Users |->
          IF p \in results.team1
          THEN [users[p] EXCEPT !.elo = newRatings[p],
                                !.gamesPlayed = @ + 1,
                                !.gamesAttended = @ + 1]
          ELSE users[p]]

\* Writes that set the ratings of both sports
CommitWritesBothSports(results) ==
    LET newRatings == NewRatings(results)
    IN [p \in Users |->
          IF p \in DOMAIN newRatings
          THEN [users[p] EXCEPT !.elo = newRatings[p],
                                !.otherElo = newRatings[p],
                                !.gamesPlayed = @ + 1,
                                !.gamesAttended = @ + 1]
          ELSE users[p]]

\* The writes of the transaction: every participant's rating of the game's
\* sport (the field path sports.<sport>) and counters
CommitWrites(results) ==
    LET newRatings == NewRatings(results)
    IN [p \in Users |->
          IF p \in DOMAIN newRatings
          THEN [users[p] EXCEPT !.elo = newRatings[p],
                                !.gamesPlayed = @ + 1,
                                !.gamesAttended = @ + 1]
          ELSE users[p]]

\* processEloUpdatesTransactional: one atomic transaction; it throws, and
\* writes nothing, when a participant's profile is missing
processEloUpdatesTransactional(page) ==
    /\ handler[page].at = "processEloUpdatesTransactional"
    /\ LET results == handler[page].results
       IN IF \A p \in Participants(results) : users[p].exists
          THEN /\ users' = CommitWrites(results)
               /\ game' = [game EXCEPT !.status = "completed"]
               /\ Snapshot(game')
          ELSE UNCHANGED <<users, game, canCheckIn, loadedPlayers>>
    /\ handler' = [handler EXCEPT ![page] = Idle]
    /\ UNCHANGED <<now, startAttempts>>
    /\ UNCHANGED <<nextGames, display, friends>>

-----------------------------------------------------------------------------
(* The lobby: from the creation of the game to its start or cancellation *)

Next ==
    \/ Tick
    \/ \E page \in Pages : handleJoin(page)
    \/ \E page \in Pages : joinGame(page)
    \/ \E page \in Pages : handleLeave(page)
    \/ \E page \in Pages : leaveGame(page)
    \/ \E page \in Pages : handleCancelGame(page)
    \/ \E page \in Pages : cancelGame(page)
    \/ \E page \in Pages, position \in Positions : handleCheckIn(page, position)
    \/ \E page \in Pages : checkInToGame(page)
    \/ \E page \in Pages : checkInWrite(page)
    \/ \E page \in Pages : handleStartGame(page)
    \/ \E page \in Pages : updateUserReliability(page)
    \/ \E page \in Pages : startGameFails(page)
    \/ \E page \in Pages : incrementUserGamesRead(page)
    \/ \E page \in Pages : incrementUserGames(page)
    \/ \E page \in Pages : updateGameStatus(page)

Spec == Init /\ [][Next]_vars

-----------------------------------------------------------------------------
(* The results: from a started game to the rating commit *)

\* A game of four that the host started at its start time with everybody
\* checked in (nobody was penalised); each user has one page open
ResultsInit ==
    /\ game = [NewGame(Cardinality(Users)) EXCEPT !.players = <<"h", "a", "b", "c">>,
                                                 !.checkedIn = Users,
                                                 !.status = "in_progress"]
    /\ \E missing \in SUBSET {"b"} :
          users = [u \in Users |-> IF u \in missing THEN NoUser ELSE NewUser]
    /\ now = StartTime
    /\ canCheckIn = [p \in Pages |-> isWithinCheckInWindow(game.startTime, CHECK_IN_WINDOW_MINUTES, StartTime)]
    /\ loadedPlayers = [p \in Pages |-> PlayerData(game)]
    /\ handler = [p \in Pages |-> IF p \in {"h1", "a1", "b1", "c1"} THEN Idle ELSE Closed]
    /\ startAttempts = 1
    /\ nextGames = {}
    /\ friends = <<>>
    /\ display = NoDisplay

ResultsNext ==
    \/ \E page \in Pages, teams \in TeamChoices,
          team1Score \in 0 .. MaxScore, team2Score \in 0 .. MaxScore :
          handleSubmitScore(page, teams[1], teams[2], team1Score, team2Score)
    \/ \E page \in Pages : submitGameResults(page)
    \/ \E page \in Pages : submitWrite(page)
    \/ \E page \in Pages : handleConfirmScore(page)
    \/ \E page \in Pages : confirmGameResults(page)
    \/ \E page \in Pages : confirmWrite(page)
    \/ \E page \in Pages : processEloUpdatesTransactional(page)

ResultsSpec == ResultsInit /\ [][ResultsNext]_vars

\* Every request that is under way is answered, and a participant who can
\* still submit or confirm does so at some time
FairResultsSpec == ResultsSpec /\ WF_vars(ResultsNext)

\* A started game of the host and one other player, both checked in; the
\* host has the game open on two pages and the other player on one
FormsInit ==
    /\ game = [NewGame(LobbyMaxPlayers) EXCEPT !.players = <<"h", "a">>,
                                              !.checkedIn = {"h", "a"},
                                              !.status = "in_progress"]
    /\ users = [u \in Users |-> NewUser]
    /\ now = StartTime
    /\ canCheckIn = [p \in Pages |-> isWithinCheckInWindow(game.startTime, CHECK_IN_WINDOW_MINUTES, StartTime)]
    /\ loadedPlayers = [p \in Pages |-> PlayerData(game)]
    /\ handler = [p \in Pages |-> IF p \in {"h1", "h2", "a1"} THEN Idle ELSE Closed]
    /\ startAttempts = 1
    /\ nextGames = {}
    /\ friends = <<>>
    /\ display = NoDisplay

FormsSpec == FormsInit /\ [][ResultsNext]_vars

\* Confirmations arriving one after another: a handler is started only
\* when no other handler is running
NoHandlerRunning == \A p \in Pages : handler[p].at \in {"idle", "closed"}

SequentialNext ==
    \/ \E page \in Pages, teams \in TeamChoices,
          team1Score \in 0 .. MaxScore, team2Score \in 0 .. MaxScore :
          /\ NoHandlerRunning
          /\ handleSubmitScore(page, teams[1], teams[2], team1Score, team2Score)
    \/ \E page \in Pages : submitGameResults(page)
    \/ \E page \in Pages : submitWrite(page)
    \/ \E page \in Pages : NoHandlerRunning /\ handleConfirmScore(page)
    \/ \E page \in Pages : confirmGameResults(page)
    \/ \E page \in Pages : confirmWrite(page)
    \/ \E page \in Pages : processEloUpdatesTransactional(page)

SequentialSpec == ResultsInit /\ [][SequentialNext]_vars

-----------------------------------------------------------------------------
(* One game from its creation to the rating commit *)

\* After createGame: the host with a page and one other user with a page
LifeInit ==
    /\ game = NewGame(LobbyMaxPlayers)
    /\ users = [u \in Users |-> NewUser]
    /\ InitPages({"h1", "a1"})

LifeNext == Next \/ ResultsNext

LifeSpec == LifeInit /\ [][LifeNext]_vars

-----------------------------------------------------------------------------
(* Requests of the lobby that are still under way when the game starts *)

\* The values the score inputs of the form can hold (Number(e.target.value))
ScoreInputs == -1 .. MaxScore

\* The profile of a player who was a no-show at the start
Penalised ==
    [NewUser EXCEPT !.reliabilityScore = calculateReliabilityPenalty(@),
                    !.gamesPlayed = 1]

\* The game has just been started by the host on page h1 with h and b
\* checked in; a is not in the game.  Requests issued while the game was
\* open may not have reached the server yet: the join of c (or, c being
\* joined, c's check-in that passed its checks), the leave of b, and a
\* cancel the host pressed on a second page
LateInit ==
    \E cAt \in {"idle", "joinGame", "checkIn_write"},
       bAt \in {"idle", "leaveGame"},
       h2At \in {"closed", "cancelGame"} :
       /\ game = [NewGame(Cardinality(Users)) EXCEPT
                     !.players = IF cAt = "joinGame" THEN <<"h", "b">>
                                 ELSE <<"h", "b", "c">>,
                     !.checkedIn = {"h", "b"},
                     !.status = "in_progress"]
       /\ users = [u \in Users |->
                     IF u = "c" /\ cAt # "joinGame" THEN Penalised ELSE NewUser]
       /\ handler = [p \in Pages |->
                       CASE p = "c1" -> [Idle EXCEPT !.at = cAt]
                         [] p = "b1" -> [Idle EXCEPT !.at = bAt]
                         [] p = "h2" -> [Idle EXCEPT !.at = h2At]
                         [] p = "a1" -> Closed
                         [] OTHER -> Idle]
       /\ now = StartTime
       /\ canCheckIn = [p \in Pages |-> isWithinCheckInWindow(game.startTime, CHECK_IN_WINDOW_MINUTES, StartTime)]
       /\ loadedPlayers = [p \in Pages |-> PlayerData(game)]
       /\ startAttempts = 1
       /\ nextGames = {}
       /\ friends = <<>>
       /\ display = NoDisplay

LateNext ==
    \/ \E page \in Pages : joinGame(page)
    \/ \E page \in Pages : leaveGame(page)
    \/ \E page \in Pages : checkInWrite(page)
    \/ \E page \in Pages : cancelGame(page)
    \/ \E page \in Pages, teams \in TeamChoices,
          team1Score \in ScoreInputs, team2Score \in ScoreInputs :
          handleSubmitScore(page, teams[1], teams[2], team1Score, team2Score)
    \/ \E page \in Pages : submitGameResults(page)
    \/ \E page \in Pages : submitWrite(page)
    \/ \E page \in Pages : handleConfirmScore(page)
    \/ \E page \in Pages : confirmGameResults(page)
    \/ \E page \in Pages : confirmWrite(page)
    \/ \E page \in Pages : processEloUpdatesTransactional(page)

LateSpec == LateInit /\ [][LateNext]_vars

\* Every request that is under way is answered and every enabled button is
\* pressed at some time: the page keeps running until nothing is left to do
FairLateSpec == LateSpec /\ WF_vars(LateNext)

-----------------------------------------------------------------------------
(* Joining a game that has a rating requirement *)

\* How many other games a user finishes while this game is open
MaxOtherGames == 1

\* The requirement of the game (the default of the create form)
MinElo == 1200

\* The rating commit of another game, in which user u played alone against
\* one opponent of rating DEFAULT_ELO and won (actual2 = 2), drew (1) or
\* lost (0): it writes u's profile
otherGameCommit(u, actual2) ==
    /\ users[u].exists
    /\ users[u].gamesAttended < MaxOtherGames
    /\ users' = [users EXCEPT
          ![u].elo = calculateNewElo(@, calculateExpectedScore(@, DEFAULT_ELO), actual2),
          ![u].gamesPlayed = @ + 1,
          ![u].gamesAttended = @ + 1]
    /\ UNCHANGED <<game, canCheckIn, loadedPlayers, handler, now, startAttempts, nextGames, display, friends>>

JoinInit ==
    /\ game = [NewGame(Cardinality(Users)) EXCEPT !.minElo = MinElo]
    /\ users = [u \in Users |-> NewUser]
    /\ InitPages({"h1", "a1", "b1", "c1"})

JoinNext ==
    \/ \E page \in Pages : handleJoin(page)
    \/ \E page \in Pages : joinGame(page)
    \/ \E page \in Pages : handleLeave(page)
    \/ \E page \in Pages : leaveGame(page)
    \/ \E u \in Users \ {Host}, actual2 \in 0 .. 2 : otherGameCommit(u, actual2)

JoinSpec == JoinInit /\ [][JoinNext]_vars

-----------------------------------------------------------------------------
(* The create form *)

MaxPlayersInput == 3
MaxStartInput == 60

\* Before createGame there is no game document
NoGame ==
    [createGame("none", "none",
                [sport |-> "none", location |-> GameLocation, startTime |-> 0,
                 duration |-> 0, maxPlayers |-> 0, skillLevel |-> "none",
                 minElo |-> NoMinElo, recurrence |-> NoRecurrence])
        EXCEPT !.status = "none", !.players = <<>>]

\* What the host can enter in the form
CreateInputs ==
    [sport : {"basketball"},
     location : {GameLocation},
     duration : {60},
     skillLevel : {"casual"},
     maxPlayers : 0 .. MaxPlayersInput,
     startTime : {t \in 0 .. MaxStartInput : t % TickMinutes = 0},
     minElo : {NoMinElo, MinElo},
     recurrence : {NoRecurrence, [frequency |-> Frequency, parentGameId |-> "none"]}]

\* handleSubmit without the comparison of the start time with the clock
handleSubmitAnyStartTime(page, input) ==
    /\ handler[page].at = "idle"
    /\ game.status = "none"
    /\ 2 <= input.maxPlayers
    /\ input.maxPlayers <= 30
    /\ handler' = [handler EXCEPT ![page] =
                      [Idle EXCEPT !.at = "createGame", !.todo = <<input>>, !.read = now]]
    /\ UNCHANGED <<game, users, canCheckIn, loadedPlayers, now, startAttempts>>
    /\ UNCHANGED <<nextGames, display, friends>>

\* handleSubmit: the browser raises the submit event only for a number of
\* players within min and max of the input; a start time that is not after
\* the clock is answered with an error, anything else goes to createGame
handleSubmit(page, input) ==
    /\ handler[page].at = "idle"
    /\ game.status = "none"
    /\ 2 <= input.maxPlayers
    /\ input.maxPlayers <= 30
    /\ IF input.startTime <= now
       THEN UNCHANGED handler
       ELSE handler' = [handler EXCEPT ![page] =
                          [Idle EXCEPT !.at = "createGame", !.todo = <<input>>, !.read = now]]
    /\ UNCHANGED <<game, users, canCheckIn, loadedPlayers, now, startAttempts>>
    /\ UNCHANGED <<nextGames, display, friends>>

\* createGame's addDoc, and the page of the new game
addDoc(page) ==
    /\ handler[page].at = "createGame"
    /\ game' = createGame(uid(page), GameId, handler[page].todo[1])
    /\ handler' = [handler EXCEPT ![page] = Idle]
    /\ Snapshot(game')
    /\ UNCHANGED <<users, now, startAttempts>>
    /\ UNCHANGED <<nextGames, display, friends>>

\* addDoc is rejected: handleSubmit shows the error
createGameFails(page) ==
    /\ handler[page].at = "createGame"
    /\ handler' = [handler EXCEPT ![page] = Idle]
    /\ UNCHANGED <<game, users, canCheckIn, loadedPlayers, now, startAttempts>>
    /\ UNCHANGED <<nextGames, display, friends>>

CreateInit ==
    /\ game = NoGame
    /\ users = [u \in Users |-> NewUser]
    /\ InitPages({"h1"})

CreateNext ==
    \/ Tick
    \/ \E page \in Pages, input \in CreateInputs : handleSubmit(page, input)
    \/ \E page \in Pages : addDoc(page)
    \/ \E page \in Pages : createGameFails(page)

CreateSpec == CreateInit /\ [][CreateNext]_vars

-----------------------------------------------------------------------------
(* Repeated no-shows *)

MaxNoShows == 45

\* A game of user u is started without u being checked in: handleStartGame
\* of that game writes the penalised reliability and counts the game
otherGameNoShow(u) ==
    /\ users[u].exists
    /\ users[u].gamesPlayed < MaxNoShows
    /\ users' = [users EXCEPT
                   ![u].reliabilityScore = calculateReliabilityPenalty(@),
                   ![u].gamesPlayed = @ + 1]
    /\ UNCHANGED <<game, canCheckIn, loadedPlayers, handler, now, startAttempts, nextGames, display, friends>>

PenaltyInit ==
    /\ game = NewGame(Cardinality(Users))
    /\ users = [u \in Users |-> NewUser]
    /\ InitPages({})

PenaltyNext == \E u \in Users \ {Host} : otherGameNoShow(u)

PenaltySpec == PenaltyInit /\ [][PenaltyNext]_vars

-----------------------------------------------------------------------------
(* One match of two single-player teams *)

RatingSpread == 8
MaxMatchScore == 10

\* The ratings a match may start from
MatchRatings == (DEFAULT_ELO - RatingSpread) .. (DEFAULT_ELO + RatingSpread)

\* processGameResults applied to two teams with the ratings of the
\* profiles; the score and the new ratings are stored
applyProcessGameResults(team1, team2, team1Score, team2Score) ==
    /\ game.status = "in_progress"
    /\ LET newRatings == processGameResults([p \in team1 |-> users[p].elo],
                                            [p \in team2 |-> users[p].elo],
                                            team1Score, team2Score)
       IN users' = [u \in Users |->
                      IF u \in DOMAIN newRatings
                      THEN [users[u] EXCEPT !.elo = newRatings[u]]
                      ELSE users[u]]
    /\ game' = [game EXCEPT
                  !.status = "completed",
                  !.results = [NoResults EXCEPT !.present = TRUE,
                                                !.team1 = team1, !.team2 = team2,
                                                !.team1Score = team1Score,
                                                !.team2Score = team2Score]]
    /\ UNCHANGED <<canCheckIn, loadedPlayers, handler, now, startAttempts, nextGames, display, friends>>

MatchInit ==
    /\ game = [NewGame(Cardinality(Users)) EXCEPT !.players = <<"h", "a", "b">>,
                                                 !.checkedIn = {"h", "a", "b"},
                                                 !.status = "in_progress"]
    /\ \E ra \in MatchRatings, rb \in MatchRatings :
          users = [u \in Users |->
                     CASE u = "a" -> [NewUser EXCEPT !.elo = ra]
                       [] u = "b" -> [NewUser EXCEPT !.elo = rb]
                       [] OTHER -> NewUser]
    /\ InitPages({})

MatchNext ==
    \E team1Score \in 0 .. MaxMatchScore, team2Score \in 0 .. MaxMatchScore :
        applyProcessGameResults({"a"}, {"b"}, team1Score, team2Score)

MatchSpec == MatchInit /\ [][MatchNext]_vars

-----------------------------------------------------------------------------
(* One match of two teams of any size *)

TeamRatingStep == 37
MaxRatingSteps == 2

\* The ratings the players of a team match may have
TeamRatings == {DEFAULT_ELO + i * TeamRatingStep : i \in 0 .. MaxRatingSteps}

\* Two non-empty teams without a common player; a user may sit out
TeamSplits ==
    {split \in (SUBSET Users) \X (SUBSET Users) :
        /\ split[1] # {}
        /\ split[2] # {}
        /\ split[1] \cap split[2] = {}}

TeamMatchInit ==
    /\ game = [NewGame(Cardinality(Users)) EXCEPT !.players = <<"h", "a", "b", "c">>,
                                                 !.checkedIn = Users,
                                                 !.status = "in_progress"]
    /\ users \in [Users -> {[NewUser EXCEPT !.elo = elo] : elo \in TeamRatings}]
    /\ InitPages({})

TeamMatchNext ==
    \E split \in TeamSplits, team1Score \in 0 .. MaxScore, team2Score \in 0 .. MaxScore :
        applyProcessGameResults(split[1], split[2], team1Score, team2Score)

TeamMatchSpec == TeamMatchInit /\ [][TeamMatchNext]_vars

-----------------------------------------------------------------------------
(* The average rating of a team *)

AverageRatingStep == 25
MaxAverageSteps == 8

\* The ratings the players of an averaged team may have
AverageRatings == {DEFAULT_ELO + i * AverageRatingStep : i \in 0 .. MaxAverageSteps}

\* calculateTeamAverageElo of the ratings of the players in team
teamAverage(team) ==
    /\ display.teamAverage < 0
    /\ display' = [display EXCEPT
                     !.team = team,
                     !.teamAverage = calculateTeamAverageElo([p \in team |-> users[p].elo])]
    /\ UNCHANGED <<game, users, canCheckIn, loadedPlayers, handler, now, startAttempts, nextGames, friends>>

AverageInit ==
    /\ game = NewGame(Cardinality(Users))
    /\ users \in [Users -> {[NewUser EXCEPT !.elo = elo] : elo \in AverageRatings}]
    /\ InitPages({})

AverageNext == \E team \in SUBSET Users : teamAverage(team)

AverageSpec == AverageInit /\ [][AverageNext]_vars

-----------------------------------------------------------------------------
(* The reliability boost for attendance *)

MaxBoosts == 3

\* calculateReliabilityBoost of the reliability score of player u
reliabilityBoost(u) ==
    /\ display.boosts < MaxBoosts
    /\ users' = [users EXCEPT ![u].reliabilityScore = calculateReliabilityBoost(@)]
    /\ display' = [display EXCEPT !.boosted = u, !.boosts = @ + 1]
    /\ UNCHANGED <<game, canCheckIn, loadedPlayers, handler, now, startAttempts, nextGames, friends>>

BoostInit ==
    /\ game = NewGame(Cardinality(Users))
    /\ \E score \in 0 .. DEFAULT_RELIABILITY_SCORE :
          users = [u \in Users |->
                     IF u = "a" THEN [NewUser EXCEPT !.reliabilityScore = score] ELSE NewUser]
    /\ InitPages({})

BoostNext == \E u \in Users \ {Host} : reliabilityBoost(u)

BoostSpec == BoostInit /\ [][BoostNext]_vars

-----------------------------------------------------------------------------
(* The statistics page (app/stats/page.tsx) *)

MaxHistory == 40
MaxShortHistory == 2

RECURSIVE Pow2(_)
Pow2(n) == IF n = 0 THEN 1 ELSE 2 * Pow2(n - 1)

\* 2^n modulo m
RECURSIVE Pow2Mod(_, _)
Pow2Mod(n, m) == IF n = 0 THEN 1 % m ELSE (2 * Pow2Mod(n - 1, m)) % m

\* The binary exponent of k >= 1: the j with 2^j <= k < 2^(j+1)
RECURSIVE Log2Floor(_)
Log2Floor(k) == IF k < 2 THEN 0 ELSE 1 + Log2Floor(k \div 2)

\* The e >= 1 with 2^-e <= wins/totalGames < 2^(1-e), for 0 < wins < totalGames
RECURSIVE QuotientExponent(_, _, _)
QuotientExponent(wins, totalGames, e) ==
    IF Pow2(e) * wins >= totalGames THEN e
    ELSE QuotientExponent(wins, totalGames, e + 1)

\* The mantissa of a double has 53 bits
MantissaBits == 53

\* Math.round((wins / totalGames) * 100) in IEEE double arithmetic.  The
\* double wins/totalGames is M / 2^s with s = 52 + e and M the integer
\* nearest to wins * 2^s / totalGames; the product with 100 is rounded to 53
\* bits again.  Both errors are far below 1/(2 * totalGames), so the result
\* is the percentage rounded half up unless the percentage is k + 1/2
\* exactly: then a quotient that was rounded down (remainder rem with
\* 0 < 2 * rem < totalGames) makes the product (k + 1/2) - 100 * rem /
\* (totalGames * 2^s), which is rounded to a double below k + 1/2 when it
\* is more than half a unit in the last place (2^(j - 53), j the binary
\* exponent of k) away from k + 1/2, and Math.round gives k
winRate(wins, totalGames) ==
    IF totalGames = 0 THEN 0
    ELSE LET halfUp == (200 * wins + totalGames) \div (2 * totalGames)
             isHalf == (200 * wins) % (2 * totalGames) = totalGames
             k == halfUp - 1
             e == QuotientExponent(wins, totalGames, 1)
             s == (MantissaBits - 1) + e
             rem == (wins * Pow2Mod(s, totalGames)) % totalGames
             j == IF k >= 1 THEN Log2Floor(k) ELSE -2
         IN IF /\ isHalf
               /\ rem # 0
               /\ 2 * rem < totalGames
               /\ 100 * rem > totalGames * Pow2(e + j - 1)
            THEN k
            ELSE halfUp

\* The record computeStats pushes for a game it does not skip
PlayerGameRecord(g, userId) ==
    LET isTeam1 == userId \in g.results.team1
        playerTeamScore == IF isTeam1 THEN g.results.team1Score ELSE g.results.team2Score
        opponentTeamScore == IF isTeam1 THEN g.results.team2Score ELSE g.results.team1Score
    IN [sport |-> g.sport,
        won |-> playerTeamScore > opponentTeamScore,
        drew |-> playerTeamScore = opponentTeamScore]

\* computeStats(games, userId), without the favourite location: the loop
\* skips a game without results or without the player in a team
\* (continue), pushes a record for every other game and counts it
computeStats(games, userId) ==
    LET kept(g) == /\ g.results.present
                   /\ userId \in g.results.team1 \/ userId \in g.results.team2
        keptGames == SelectSeq(games, kept)
        records == [i \in 1 .. Len(keptGames) |-> PlayerGameRecord(keptGames[i], userId)]
        isWin(r) == r.won
        isDraw(r) == ~r.won /\ r.drew
        isLoss(r) == ~r.won /\ ~r.drew
        isBasketball(r) == r.sport = "basketball"
        isOther(r) == r.sport # "basketball"
        wins == Len(SelectSeq(records, isWin))
        draws == Len(SelectSeq(records, isDraw))
        losses == Len(SelectSeq(records, isLoss))
        totalGames == wins + losses + draws
    IN [userId |-> userId, totalGames |-> totalGames, wins |-> wins,
        losses |-> losses, draws |-> draws, winRate |-> winRate(wins, totalGames),
        basketballGames |-> Len(SelectSeq(records, isBasketball)),
        soccerGames |-> Len(SelectSeq(records, isOther)),
        gameHistory |-> records]

\* loadStats of the statistics page of user userId
loadStats(userId) ==
    /\ display.stats.userId = "none"
    /\ display' = [display EXCEPT !.stats = computeStats(display.games, userId)]
    /\ UNCHANGED <<game, users, canCheckIn, loadedPlayers, handler, now, startAttempts, nextGames, friends>>

\* The teams of a result record: the player a in team 1, in team 2, in no
\* team, and in both teams
StatsTeams ==
    {<<{"a"}, {"b"}>>, <<{"b"}, {"a"}>>, <<{"b"}, {"c"}>>, <<{"a", "b"}, {"a"}>>}

\* A completed game of the history: its sport and its result record, if any
StatsGames ==
    [sport : {"basketball", "soccer"},
     results : {NoResults} \cup
               {[present |-> TRUE, team1 |-> teams[1], team2 |-> teams[2],
                 team1Score |-> team1Score, team2Score |-> team2Score,
                 confirmedBy |-> {}] :
                    teams \in StatsTeams,
                    team1Score \in 0 .. MaxScore, team2Score \in 0 .. MaxScore}]

\* A game that team 1 = {a} won (won = TRUE) or lost against team 2 = {b}
DecidedGame(won) ==
    [sport |-> "basketball",
     results |-> [present |-> TRUE, team1 |-> {"a"}, team2 |-> {"b"},
                  team1Score |-> IF won THEN 1 ELSE 0,
                  team2Score |-> IF won THEN 0 ELSE 1, confirmedBy |-> {}]]

\* The histories: every short list of games, and the long lists of wins
\* followed by losses
Histories ==
    UNION {[1 .. n -> StatsGames] : n \in 0 .. MaxShortHistory}
    \cup {[i \in 1 .. (w + l) |-> DecidedGame(i <= w)] :
             w \in 0 .. MaxHistory, l \in 0 .. MaxHistory}

StatsInit ==
    /\ game = NewGame(Cardinality(Users))
    /\ users = [u \in Users |-> NewUser]
    /\ now = 0
    /\ canCheckIn = [p \in Pages |-> FALSE]
    /\ loadedPlayers = [p \in Pages |-> PlayerData(game)]
    /\ handler = [p \in Pages |-> Closed]
    /\ startAttempts = 0
    /\ nextGames = {}
    /\ friends = <<>>
    /\ \E games \in {h \in Histories : Len(h) <= MaxHistory} :
          display = [NoDisplay EXCEPT !.games = games]

StatsNext == \E userId \in {"a", "c"} : loadStats(userId)

StatsSpec == StatsInit /\ [][StatsNext]_vars

-----------------------------------------------------------------------------
(* The friend system *)

MaxFriendDocs == 3

\* The ids (positions in friends) of the documents of the collection with
\* this follower and this followed user: the query of followUser and
\* unfollowUser
friendDocs(followerId, followingId) ==
    {i \in 1 .. Len(friends) :
        /\ friends[i].exists
        /\ friends[i].followerId = followerId
        /\ friends[i].followingId = followingId}

\* The calls of followUser that may still add a document
FollowsUnderWay == {p \in Pages : handler[p].at \in {"followUser", "follow_write"}}

\* handleToggleFollow of a button that shows Follow calls followUser
handleFollow(page, followingId) ==
    /\ handler[page].at = "idle"
    /\ Len(friends) + Cardinality(FollowsUnderWay) < MaxFriendDocs
    /\ handler' = [handler EXCEPT ![page].at = "followUser", ![page].target = followingId]
    /\ UNCHANGED <<game, users, canCheckIn, loadedPlayers, now, startAttempts, nextGames, display, friends>>

\* followUser up to the answer of its query: it throws for the user
\* themselves and for a pair the query finds
followUser(page) ==
    /\ handler[page].at = "followUser"
    /\ handler' = [handler EXCEPT ![page] =
          IF uid(page) = handler[page].target THEN Idle
          ELSE IF friendDocs(uid(page), handler[page].target) # {} THEN Idle
          ELSE [@ EXCEPT !.at = "follow_write"]]
    /\ UNCHANGED <<game, users, canCheckIn, loadedPlayers, now, startAttempts, nextGames, display, friends>>

\* The addDoc of followUser
followWrite(page) ==
    /\ handler[page].at = "follow_write"
    /\ friends' = Append(friends, [followerId |-> uid(page),
                                   followingId |-> handler[page].target,
                                   exists |-> TRUE])
    /\ handler' = [handler EXCEPT ![page] = Idle]
    /\ UNCHANGED <<game, users, canCheckIn, loadedPlayers, now, startAttempts, nextGames, display>>

\* handleToggleFollow of a button that shows Unfollow calls unfollowUser
handleUnfollow(page, followingId) ==
    /\ handler[page].at = "idle"
    /\ handler' = [handler EXCEPT ![page].at = "unfollowUser", ![page].target = followingId]
    /\ UNCHANGED <<game, users, canCheckIn, loadedPlayers, now, startAttempts, nextGames, display, friends>>

\* The ids of a set of documents in the order of the query's answer
RECURSIVE DocsInOrder(_)
DocsInOrder(ids) ==
    IF ids = {} THEN <<>>
    ELSE LET first == CHOOSE i \in ids : \A j \in ids : i <= j
         IN <<first>> \o DocsInOrder(ids \ {first})

\* unfollowUser up to the answer of its query
unfollowUser(page) ==
    /\ handler[page].at = "unfollowUser"
    /\ LET docs == DocsInOrder(friendDocs(uid(page), handler[page].target))
       IN handler' = [handler EXCEPT ![page] =
             IF docs = <<>> THEN Idle ELSE [@ EXCEPT !.at = "deleteDoc", !.todo = docs]]
    /\ UNCHANGED <<game, users, canCheckIn, loadedPlayers, now, startAttempts, nextGames, display, friends>>

\* The next deleteDoc of the loop of unfollowUser
deleteDoc(page) ==
    /\ handler[page].at = "deleteDoc"
    /\ friends' = [friends EXCEPT ![Head(handler[page].todo)].exists = FALSE]
    /\ handler' = [handler EXCEPT ![page] =
          IF Tail(handler[page].todo) = <<>> THEN Idle
          ELSE [@ EXCEPT !.todo = Tail(@)]]
    /\ UNCHANGED <<game, users, canCheckIn, loadedPlayers, now, startAttempts, nextGames, display>>

\* The host has two pages open and one other user has one
FriendsInit ==
    /\ game = NewGame(Cardinality(Users))
    /\ users = [u \in Users |-> NewUser]
    /\ InitPages({"h1", "h2", "a1"})

FriendsNext ==
    \/ \E page \in Pages, followingId \in {"h", "a"} : handleFollow(page, followingId)
    \/ \E page \in Pages : followUser(page)
    \/ \E page \in Pages : followWrite(page)
    \/ \E page \in Pages, followingId \in {"h", "a"} : handleUnfollow(page, followingId)
    \/ \E page \in Pages : unfollowUser(page)
    \/ \E page \in Pages : deleteDoc(page)

FriendsSpec == FriendsInit /\ [][FriendsNext]_vars

-----------------------------------------------------------------------------
(* The rating badge *)

MinTierRating == 950
MaxTierRating == 2050

\* EloDisplay of the profile the page shows
EloDisplay(page) ==
    /\ handler[page].at = "idle"
    /\ users[uid(page)].exists
    /\ display' = [display EXCEPT !.tier = getEloTier(users[uid(page)].elo)]
    /\ UNCHANGED <<game, users, canCheckIn, loadedPlayers, handler, now, startAttempts, nextGames, friends>>

TierInit ==
    /\ game = NewGame(Cardinality(Users))
    /\ \E elo \in MinTierRating .. MaxTierRating :
          users = [u \in Users |-> IF u = "a" THEN [NewUser EXCEPT !.elo = elo] ELSE NewUser]
    /\ InitPages({"a1"})

TierNext == \E page \in Pages : EloDisplay(page)

TierSpec == TierInit /\ [][TierNext]_vars

-----------------------------------------------------------------------------
(* The check-in window *)

MaxWindowNow == 60

\* The window sizes asked for: the default and twice the default
WindowSizes == {CHECK_IN_WINDOW_MINUTES, 2 * CHECK_IN_WINDOW_MINUTES}

\* isWithinCheckInWindow and getTimeUntilCheckInWindow evaluated for one
\* window size at the current clock
checkInWindow(windowMinutes) ==
    /\ display' = [display EXCEPT
                     !.windowMinutes = windowMinutes,
                     !.canCheckIn = isWithinCheckInWindow(game.startTime, windowMinutes, now),
                     !.timeUntil = getTimeUntilCheckInWindow(game.startTime, windowMinutes, now)]
    /\ UNCHANGED <<game, users, canCheckIn, loadedPlayers, handler, now, startAttempts, nextGames, friends>>

WindowInit ==
    /\ \E gameStartTime \in 0 .. MaxWindowNow :
          game = [NewGame(Cardinality(Users)) EXCEPT !.startTime = gameStartTime]
    /\ users = [u \in Users |-> NewUser]
    /\ now \in 0 .. MaxWindowNow
    /\ canCheckIn = [p \in Pages |->
                       isWithinCheckInWindow(game.startTime, CHECK_IN_WINDOW_MINUTES, now)]
    /\ loadedPlayers = [p \in Pages |-> PlayerData(game)]
    /\ handler = [p \in Pages |-> IF p = "h1" THEN Idle ELSE Closed]
    /\ startAttempts = 0
    /\ nextGames = {}
    /\ friends = <<>>
    /\ display = NoDisplay

WindowNext == \E windowMinutes \in WindowSizes : checkInWindow(windowMinutes)

WindowSpec == WindowInit /\ [][WindowNext]_vars

-----------------------------------------------------------------------------
(* Two rating commits that share a player.  runTransaction is followed   *)
(* through its reads and its commit: the commit is applied only if no     *)
(* document read by the transaction was written since, otherwise the      *)
(* update function is run again.                                          *)

\* calculateResults on the ratings of the profiles in data
ratingsFrom(data, results) ==
    processGameResults([p \in results.team1 |-> data[p].elo],
                       [p \in results.team2 \ results.team1 |-> data[p].elo],
                       results.team1Score, results.team2Score)

\* transaction.update of every participant: the new rating, and the counters
\* of the profile that was read plus one; us are the profiles written to
transactionWrites(us, data, results) ==
    LET newRatings == ratingsFrom(data, results)
    IN [p \in Users |->
          IF p \in DOMAIN newRatings
          THEN [us[p] EXCEPT !.elo = newRatings[p],
                             !.gamesPlayed = data[p].gamesPlayed + 1,
                             !.gamesAttended = data[p].gamesAttended + 1]
          ELSE us[p]]

\* The game document with id gameId
gameDoc(gameId) ==
    IF gameId = game.gameId THEN game ELSE CHOOSE g \in nextGames : g.gameId = gameId

\* The transaction.get calls of the update function
transactionGet(page) ==
    /\ handler[page].at = "processEloUpdatesTransactional"
    /\ handler[page].todo # <<>>
    /\ LET results == handler[page].results
       IN handler' = [handler EXCEPT ![page] =
             IF \A p \in Participants(results) : users[p].exists
             THEN [@ EXCEPT !.at = "transaction_commit",
                            !.todo = <<handler[page].todo[1],
                                       [p \in Participants(results) |-> users[p]]>>]
             ELSE Idle]
    /\ UNCHANGED <<game, users, canCheckIn, loadedPlayers, now, startAttempts, nextGames, display, friends>>

\* The commit without the comparison of the documents read: the last write
\* wins
transactionCommitLastWriteWins(page) ==
    /\ handler[page].at = "transaction_commit"
    /\ LET results == handler[page].results
           gameId == handler[page].todo[1]
           data == handler[page].todo[2]
       IN /\ users' = transactionWrites(users, data, results)
          /\ IF gameId = game.gameId
             THEN /\ game' = [game EXCEPT !.status = "completed"]
                  /\ UNCHANGED nextGames
             ELSE /\ nextGames' = {IF g.gameId = gameId
                                   THEN [g EXCEPT !.status = "completed"] ELSE g :
                                   g \in nextGames}
                  /\ UNCHANGED game
          /\ handler' = [handler EXCEPT ![page] = Idle]
    /\ UNCHANGED <<canCheckIn, loadedPlayers, now, startAttempts, display, friends>>

\* The commit of the transaction: applied if every profile it read is as it
\* was read; otherwise nothing is written and the update function runs again
transactionCommit(page) ==
    /\ handler[page].at = "transaction_commit"
    /\ LET results == handler[page].results
           gameId == handler[page].todo[1]
           data == handler[page].todo[2]
       IN IF \A p \in DOMAIN data : users[p] = data[p]
          THEN /\ users' = transactionWrites(users, data, results)
               /\ IF gameId = game.gameId
                  THEN /\ game' = [game EXCEPT !.status = "completed"]
                       /\ UNCHANGED nextGames
                  ELSE /\ nextGames' = {IF g.gameId = gameId
                                        THEN [g EXCEPT !.status = "completed"] ELSE g :
                                        g \in nextGames}
                       /\ UNCHANGED game
               /\ handler' = [handler EXCEPT ![page] = Idle]
          ELSE /\ handler' = [handler EXCEPT
                                ![page].at = "processEloUpdatesTransactional",
                                ![page].todo = <<gameId>>]
               /\ UNCHANGED <<game, users, nextGames>>
    /\ UNCHANGED <<canCheckIn, loadedPlayers, now, startAttempts, display, friends>>

\* The results in which user a played alone against player opponent, a
\* being team 2 of the first game and team 1 of the second
OverlapResults(team1, team2, team1Score, team2Score) ==
    [NoResults EXCEPT !.present = TRUE, !.team1 = team1, !.team2 = team2,
                      !.team1Score = team1Score, !.team2Score = team2Score,
                      !.confirmedBy = team1 \cup team2]

\* Two pending_results games of the host, h against a and a against b, all
\* confirmed; the handler of h is about to commit the first and the handler
\* of b the second
OverlapInit ==
    /\ \E s1, s2, s3, s4 \in 0 .. MaxScore :
          /\ game = [NewGame(Cardinality(Users)) EXCEPT
                        !.players = <<"h", "a">>, !.checkedIn = {"h", "a"},
                        !.status = "pending_results",
                        !.results = OverlapResults({"h"}, {"a"}, s1, s2)]
          /\ nextGames = {[NewGame(Cardinality(Users)) EXCEPT
                             !.gameId = NextGameId,
                             !.players = <<"h", "a", "b">>, !.checkedIn = {"a", "b"},
                             !.status = "pending_results",
                             !.results = OverlapResults({"a"}, {"b"}, s3, s4)]}
    /\ friends = <<>>
    /\ users = [u \in Users |-> NewUser]
    /\ now = StartTime
    /\ canCheckIn = [p \in Pages |->
                       isWithinCheckInWindow(game.startTime, CHECK_IN_WINDOW_MINUTES, now)]
    /\ loadedPlayers = [p \in Pages |-> PlayerData(game)]
    /\ handler = [p \in Pages |->
                    CASE p = "h1" -> [Idle EXCEPT !.at = "processEloUpdatesTransactional",
                                                  !.todo = <<GameId>>,
                                                  !.results = game.results]
                      [] p = "b1" -> [Idle EXCEPT !.at = "processEloUpdatesTransactional",
                                                  !.todo = <<NextGameId>>,
                                                  !.results = gameDoc(NextGameId).results]
                      [] OTHER -> Closed]
    /\ startAttempts = 1
    /\ display = NoDisplay

OverlapNext ==
    \/ \E page \in Pages : transactionGet(page)
    \/ \E page \in Pages : transactionCommit(page)

OverlapSpec == OverlapInit /\ [][OverlapNext]_vars

-----------------------------------------------------------------------------
(* The chain of occurrences of a recurring game.  createNextRecurringGame  *)
(* is applied the way its comment describes: to the latest occurrence,     *)
(* once that occurrence is completed or cancelled.                         *)

MaxStartDay == 2
MaxNowDay == 2

\* The ids addDoc gives the occurrences, in the order of their creation
NewDocIds == <<"g2", "g3", "g4", "g5", "g6">>

\* A start time or a clock value: a number of days and up to one minute
Instants(maxDay) == {DaysToMinutes(d) + m : d \in 0 .. maxDay, m \in 0 .. 1}

\* The occurrence with the latest start among the original and the games
\* created from it
latestOccurrence ==
    CHOOSE g \in {game} \cup nextGames :
        \A other \in {game} \cup nextGames : other.startTime <= g.startTime

\* createNextRecurringGame(latest occurrence), once it is over
spawnNextOccurrence ==
    /\ latestOccurrence.status \in {"completed", "cancelled"}
    /\ Cardinality(nextGames) < Len(NewDocIds)
    /\ nextGames' = nextGames \cup
          createNextRecurringGame(latestOccurrence, now,
                                  NewDocIds[Cardinality(nextGames) + 1])
    /\ UNCHANGED <<game, users, canCheckIn, loadedPlayers, handler, now, startAttempts, display, friends>>

\* completeGame or cancelGame of the occurrence that was created last
endOccurrence(status) ==
    /\ nextGames # {}
    /\ latestOccurrence.status = "open"
    /\ nextGames' = (nextGames \ {latestOccurrence}) \cup
                        {[latestOccurrence EXCEPT !.status = status]}
    /\ UNCHANGED <<game, users, canCheckIn, loadedPlayers, handler, now, startAttempts, display, friends>>

RecurrenceInit ==
    /\ \E frequency \in {"none", "weekly", "biweekly"},
          startTime \in Instants(MaxStartDay),
          status \in {"completed", "cancelled"},
          sport \in {"basketball", "soccer"},
          minElo \in {NoMinElo, MinElo} :
          game = [createGame(Host, GameId,
                     [sport |-> sport, location |-> GameLocation,
                      startTime |-> startTime, duration |-> 60,
                      maxPlayers |-> Cardinality(Users), skillLevel |-> "casual",
                      minElo |-> minElo,
                      recurrence |-> [frequency |-> frequency, parentGameId |-> "none"]])
                    EXCEPT !.status = status]
    /\ users = [u \in Users |-> NewUser]
    /\ now \in Instants(MaxNowDay)
    /\ canCheckIn = [p \in Pages |->
                       isWithinCheckInWindow(game.startTime, CHECK_IN_WINDOW_MINUTES, now)]
    /\ loadedPlayers = [p \in Pages |-> PlayerData(game)]
    /\ handler = [p \in Pages |-> Closed]
    /\ startAttempts = 0
    /\ nextGames = {}
    /\ friends = <<>>
    /\ display = NoDisplay

RecurrenceNext ==
    \/ spawnNextOccurrence
    \/ \E status \in {"completed", "cancelled"} : endOccurrence(status)

RecurrenceSpec == RecurrenceInit /\ [][RecurrenceNext]_vars

-----------------------------------------------------------------------------
(* Two games that are started with the same no-show *)

\* The second game, created by b
OtherHost == "b"

\* The game the page of a host shows
shownGame(page) == IF uid(page) = OtherHost THEN gameDoc(NextGameId) ELSE game

\* NoShows for the game g the page shows
NoShowsOf(g, page) ==
    LET penalised == SelectSeq(g.players,
                        LAMBDA p : /\ p \notin g.checkedIn
                                   /\ loadedPlayers[page][p] # NotLoaded)
    IN [i \in DOMAIN penalised |->
          [id |-> penalised[i],
           newReliability |->
               calculateReliabilityPenalty(loadedPlayers[page][penalised[i]])]]

\* The loadPlayers effect of a page that is opened again: it loads the
\* profiles of the players of its game
loadPlayers(page) ==
    /\ handler[page].at = "idle"
    /\ loadedPlayers[page] # PlayerData(shownGame(page))
    /\ loadedPlayers' = [loadedPlayers EXCEPT ![page] = PlayerData(shownGame(page))]
    /\ UNCHANGED <<game, users, canCheckIn, handler, now, startAttempts, nextGames, display, friends>>

\* handleStartGame on the page of the host of the game the page shows
handleStartShownGame(page) ==
    /\ handler[page].at = "idle"
    /\ LET g == shownGame(page)
       IN /\ g.status = "open"
          /\ includes(g.players, uid(page))
          /\ uid(page) = g.hostId
          /\ canCheckIn[page]
          /\ Cardinality(g.checkedIn) > 0
          /\ handler' = [handler EXCEPT ![page].at = "start",
                                        ![page].todo = NoShowsOf(g, page)]
    /\ startAttempts' = startAttempts + 1
    /\ UNCHANGED <<game, users, canCheckIn, loadedPlayers, now, nextGames, display, friends>>

\* updateGameStatus(gameId, 'in_progress') for the game the page shows; the
\* pages that show this game receive the snapshot and reload the profiles
updateShownGameStatus(page) ==
    /\ handler[page].at = "start"
    /\ handler[page].todo = <<>>
    /\ LET g == shownGame(page)
           started == [g EXCEPT !.status = "in_progress"]
       IN /\ IF g.gameId = game.gameId
             THEN game' = started /\ UNCHANGED nextGames
             ELSE nextGames' = (nextGames \ {g}) \cup {started} /\ UNCHANGED game
          /\ loadedPlayers' = [p \in Pages |->
                                 IF shownGame(p).gameId = g.gameId
                                 THEN PlayerData(started) ELSE loadedPlayers[p]]
    /\ handler' = [handler EXCEPT ![page] = Idle]
    /\ UNCHANGED <<users, canCheckIn, now, startAttempts, display, friends>>

\* Two open games inside their check-in window: h hosts one with the
\* players h, a and c, b hosts the other with the players b and a; only the
\* hosts are checked in, and each host has the page of their game open
StartsInit ==
    /\ game = [NewGame(Cardinality(Users)) EXCEPT !.players = <<"h", "a", "c">>,
                                                 !.checkedIn = {"h"}]
    /\ nextGames = {[NewGame(Cardinality(Users)) EXCEPT
                        !.gameId = NextGameId, !.hostId = OtherHost,
                        !.players = <<"b", "a">>, !.checkedIn = {"b"}]}
    /\ friends = <<>>
    /\ users = [u \in Users |-> NewUser]
    /\ now = StartTime
    /\ canCheckIn = [p \in Pages |->
                       isWithinCheckInWindow(game.startTime, CHECK_IN_WINDOW_MINUTES, now)]
    /\ loadedPlayers = [p \in Pages |-> PlayerData(shownGame(p))]
    /\ handler = [p \in Pages |-> IF p \in {"h1", "b1"} THEN Idle ELSE Closed]
    /\ startAttempts = 0
    /\ display = NoDisplay

StartsNext ==
    \/ \E page \in Pages : loadPlayers(page)
    \/ \E page \in Pages : handleStartShownGame(page)
    \/ \E page \in Pages : updateUserReliability(page)
    \/ \E page \in Pages : incrementUserGamesRead(page)
    \/ \E page \in Pages : incrementUserGames(page)
    \/ \E page \in Pages : updateShownGameStatus(page)

StartsSpec == StartsInit /\ [][StartsNext]_vars

-----------------------------------------------------------------------------
(* Properties of the rating commit *)

\* C1: the rating commit takes effect at most once per game, also when two
\* confirmations run concurrently: no participant's gamesPlayed or
\* gamesAttended grows by more than 1 (the game of ResultsSpec starts from
\* counters 0 and no-shows do not exist in it)
C1_CommitAtMostOnce ==
    \A u \in Users : users[u].gamesAttended <= 1 /\ users[u].gamesPlayed <= 1

CommitStep(page) ==
    /\ handler[page].at = "processEloUpdatesTransactional"
    /\ handler'[page].at # "processEloUpdatesTransactional"

CommitApplied(results) ==
    /\ game'.status = "completed"
    /\ \A p \in Users :
          users'[p] = IF p \in Participants(results)
                      THEN [users[p] EXCEPT !.elo = NewRatings(results)[p],
                                            !.gamesPlayed = @ + 1,
                                            !.gamesAttended = @ + 1]
                      ELSE users[p]

CommitRefused(results) ==
    /\ \E p \in Participants(results) : ~users[p].exists
    /\ users' = users
    /\ game' = game

\* C2: the rating commit is all-or-nothing.  In every state all participants
\* of the results have received the same number of commits, and no profile
\* has changed while the game is not completed; every run of the
\* transaction either gives every participant the new rating with
\* gamesPlayed+1 and gamesAttended+1 and completes the game, or (a profile
\* is missing) changes no profile and leaves the game as it was
C2_AllOrNothing ==
    /\ [](\A p, q \in Participants(game.results) :
             users[p].gamesAttended = users[q].gamesAttended)
    /\ [](game.status # "completed" =>
             \A u \in Users : users[u].exists => users[u] = NewUser)
    /\ [][\A page \in Pages : CommitStep(page) =>
             \/ CommitApplied(handler[page].results)
             \/ CommitRefused(handler[page].results)]_vars

\* A game completed by a commit: every participant has the counters of one
\* game, the rating of the winners has changed, the others are untouched
C2_Witness ==
    /\ game.status = "completed"
    /\ Cardinality(Participants(game.results)) = 3
    /\ \A p \in Participants(game.results) :
          users[p].gamesPlayed = 1 /\ users[p].gamesAttended = 1
    /\ \E p \in Participants(game.results) : users[p].elo > DEFAULT_ELO
    /\ \A u \in Users \ Participants(game.results) : users[u] = NewUser

ConfirmStep(page) ==
    /\ handler[page].at = "confirm_write"
    /\ handler'[page].at # "confirm_write"

CommitTriggered(page) == handler'[page].at = "processEloUpdatesTransactional"

TotalPlayers == Cardinality(game.results.team1) + Cardinality(game.results.team2)

-----------------------------------------------------------------------------
(* Properties of the lobby *)

StatusEdges ==
    {<<"open", "in_progress">>, <<"in_progress", "pending_results">>,
     <<"pending_results", "completed">>, <<"open", "cancelled">>,
     <<"in_progress", "cancelled">>}

\* C3: the status changes only along the edges of the state machine, so a
\* completed or cancelled game never changes its status again
C3_StatusEdges ==
    [][game'.status # game.status => <<game.status, game'.status>> \in StatusEdges]_vars

\* C5: the checked-in set is a subset of the joined players
C5_CheckedInJoined == game.checkedIn \subseteq Range(game.players)

\* C6: the number of joined players is at most maxPlayers
C6_AtMostMaxPlayers == Len(game.players) <= game.maxPlayers

LeaveStep(page) ==
    /\ handler[page].at = "leaveGame"
    /\ handler'[page].at # "leaveGame"

\* C7: the host is a joined player in every state; no leave of the host is
\* ever under way, and the leave of another player removes exactly that
\* player
C7_HostStaysJoined ==
    /\ [](includes(game.players, game.hostId))
    /\ [](\A page \in Pages : handler[page].at = "leaveGame" => ~isHost(page))
    /\ [][\A page \in Pages : LeaveStep(page) =>
             /\ Range(game'.players) = Range(game.players) \ {uid(page)}
             /\ game'.hostId = game.hostId]_vars

\* User a joined, checked in and left: the host is the only joined player
C7_Witness ==
    /\ game.players = <<Host>>
    /\ "a" \in game.checkedIn
    /\ handler["a1"].at = "idle"

\* C8: over the life of the game a player is penalised at most once: the
\* counter gamesPlayed grows by 1 at most and the reliability falls to
\* round(100 * 0.95) at most, also when the start is repeated
C8_PenalisedOnce ==
    \A u \in Users : users[u].exists =>
        /\ users[u].gamesPlayed <= 1
        /\ users[u].reliabilityScore >= calculateReliabilityPenalty(DEFAULT_RELIABILITY_SCORE)

StartRunning(page) ==
    handler[page].at \in {"start", "incrementUserGames", "increment_write"}

WindowHasOpened == now >= game.startTime - CHECK_IN_WINDOW_MINUTES

\* C9: the status moves from open to in_progress only in the last step of
\* a start of the host, with the check-in window opened and somebody
\* checked in; a start is never under way for a user who is not the host
\* or with an empty checked-in set, and a profile is written only inside
\* such a start
C9_StartGuard ==
    /\ [](\A page \in Pages : StartRunning(page) =>
             /\ isHost(page)
             /\ game.checkedIn # {}
             /\ WindowHasOpened)
    /\ [][(game.status = "open" /\ game'.status = "in_progress") =>
             \E page \in Pages : /\ isHost(page)
                                 /\ handler[page].at = "start"
                                 /\ handler'[page].at = "idle"
                                 /\ game.checkedIn # {}
                                 /\ WindowHasOpened]_vars
    /\ [][users' # users =>
             \E page \in Pages : isHost(page) /\ StartRunning(page)]_vars

\* The scenario of two players: the host started with only the host
\* checked in, the second player was penalised and the game is in progress
C9_Witness ==
    /\ game.status = "in_progress"
    /\ game.players = <<Host, "a">>
    /\ game.checkedIn = {Host}
    /\ users["a"].reliabilityScore = 95
    /\ users["a"].gamesPlayed = 1
    /\ users["a"].gamesAttended = 0
    /\ users[Host] = NewUser

\* C10: a player is added to the checked-in set only while the player is
\* joined, the status is open and the time is within the check-in window
\* (the position is compared with the radius by handleCheckIn, before the
\* write is requested)
C10_CheckInGuard ==
    [][\A u \in game'.checkedIn \ game.checkedIn :
          /\ includes(game.players, u)
          /\ game.status = "open"
          /\ isWithinCheckInWindow(game.startTime, CHECK_IN_WINDOW_MINUTES, now)]_vars

-----------------------------------------------------------------------------
(* Properties of the results *)

\* C11: whenever the game has a result record, both teams are non-empty,
\* have no player in common and consist of joined players, and both scores
\* are non-negative
C11_ResultRecord ==
    game.results.present =>
        /\ game.results.team1 # {}
        /\ game.results.team2 # {}
        /\ game.results.team1 \cap game.results.team2 = {}
        /\ game.results.team1 \subseteq Range(game.players)
        /\ game.results.team2 \subseteq Range(game.players)
        /\ game.results.team1Score >= 0
        /\ game.results.team2Score >= 0

SubmitStep(page) ==
    /\ handler[page].at = "submit_write"
    /\ handler'[page].at # "submit_write"

SubmitRefused(page) ==
    /\ handler[page].at = "submitGameResults"
    /\ handler'[page].at = "idle"

\* C12: results are written only for the host and only while the status is
\* in_progress, and the write leaves the game pending_results with nobody
\* confirmed; a submit that is refused leaves the game unchanged
C12_SubmitGuard ==
    [][\A page \in Pages :
          /\ SubmitStep(page) =>
                /\ isHost(page)
                /\ game.status = "in_progress"
                /\ game'.status = "pending_results"
                /\ game'.results.confirmedBy = {}
          /\ SubmitRefused(page) => game' = game]_vars

\* C13: confirmedBy holds only participants; a confirmation is recorded
\* only while the status is pending_results, for an actor who is listed in
\* a team and has not confirmed; a confirmation that is refused changes
\* nothing and triggers no commit
C13_ConfirmGuard ==
    /\ [](game.results.confirmedBy \subseteq Participants(game.results))
    /\ [][\A page \in Pages :
             /\ ConfirmStep(page) =>
                   /\ game.status = "pending_results"
                   /\ uid(page) \in Participants(game.results)
                   /\ uid(page) \notin game.results.confirmedBy
                   /\ game'.results.confirmedBy = game.results.confirmedBy \cup {uid(page)}
             /\ (handler[page].at = "confirmGameResults" /\ handler'[page].at = "idle")
                   => game' = game /\ users' = users]_vars

-----------------------------------------------------------------------------
(* Properties of the lobby, continued *)

JoinStep(page) ==
    /\ handler[page].at = "joinGame"
    /\ handler'[page].at # "joinGame"

\* C14: in a game with minElo, a user is added to the joined players only
\* with a rating of at least minElo at that time, and a user below minElo
\* has no join under way
C14_EloRequirement ==
    /\ [][\A page \in Pages : JoinStep(page) /\ game'.players # game.players =>
             users[uid(page)].elo >= game.minElo]_vars
    /\ [][\A page \in Pages :
             (handler[page].at = "idle" /\ handler'[page].at = "joinGame") =>
                 users[uid(page)].elo >= game.minElo]_vars

\* C15: the joined players and the checked-in players of a game change only
\* in a step taken while its status is open
C15_SetsChangeOnlyWhileOpen ==
    [][(game'.players # game.players \/ game'.checkedIn # game.checkedIn) =>
           game.status = "open"]_vars

CancelStep(page) ==
    /\ handler[page].at = "cancelGame"
    /\ handler'[page].at # "cancelGame"

\* C16: a cancel is applied only for the host and only to an open or
\* in_progress game; it sets the status to cancelled and changes no profile
\* and neither the joined nor the checked-in players
C16_CancelFrame ==
    [][\A page \in Pages : CancelStep(page) =>
           /\ uid(page) = game.hostId
           /\ game.status \in {"open", "in_progress"}
           /\ game' = [game EXCEPT !.status = "cancelled"]
           /\ users' = users]_vars

\* C17: once a game with a weekly or biweekly recurrence is completed or
\* cancelled and its next start is within the 30-day guard, a next
\* occurrence is eventually created
C17_NextOccurrenceCreated ==
    (/\ game.status \in {"completed", "cancelled"}
     /\ createNextRecurringGame(game, now, NextGameId) # {}) ~> (nextGames # {})

-----------------------------------------------------------------------------
(* Properties of the create form *)

\* C18: a game comes into being open, with its host as the only player and
\* nobody checked in, and only from a create with at least two players and a
\* start time after the clock at the time of the call; no other create is
\* passed on to createGame
C18_Create ==
    /\ [][game' # game =>
             /\ game.status = "none"
             /\ game'.status = "open"
             /\ game'.players = <<game'.hostId>>
             /\ game'.checkedIn = {}
             /\ game'.maxPlayers >= 2
             /\ \E page \in Pages :
                   /\ handler[page].at = "createGame"
                   /\ uid(page) = game'.hostId
                   /\ game'.startTime > handler[page].read]_vars
    /\ [][\A page \in Pages :
             (handler[page].at = "idle" /\ handler'[page].at = "createGame") =>
                 /\ handler'[page].todo[1].maxPlayers >= 2
                 /\ handler'[page].todo[1].startTime > now]_vars

\* A game created after the clock has moved on, from a form that asked for
\* two players and a rating
C18_Witness ==
    /\ game.status = "open"
    /\ game.players = <<Host>>
    /\ game.checkedIn = {}
    /\ game.maxPlayers = 2
    /\ game.minElo = MinElo
    /\ game.startTime > TickMinutes

-----------------------------------------------------------------------------
(* Properties of the reliability score *)

\* C19: starting from 100, every penalty gives a reliability score that is
\* smaller than the score it was applied to and not below 0
C19_PenaltyStrictlyDecreases ==
    [][\A u \in Users : users'[u] # users[u] =>
           /\ users'[u].reliabilityScore < users[u].reliabilityScore
           /\ users'[u].reliabilityScore >= 0]_vars

-----------------------------------------------------------------------------
(* Properties of the rating engine *)

\* C20: for two single-player teams of equal rating r, processGameResults
\* leaves both at r after a draw and otherwise gives the higher-scoring
\* player r + 16 and the other r - 16, so that the two deltas sum to 0
C20_EqualRatings ==
    [][(game.status = "in_progress" /\ game'.status = "completed"
           /\ users["a"].elo = users["b"].elo) =>
           LET r == users["a"].elo
               team1Score == game'.results.team1Score
               team2Score == game'.results.team2Score
           IN /\ team1Score = team2Score =>
                    users'["a"].elo = r /\ users'["b"].elo = r
              /\ team1Score > team2Score =>
                    users'["a"].elo = r + 16 /\ users'["b"].elo = r - 16
              /\ team1Score < team2Score =>
                    users'["a"].elo = r - 16 /\ users'["b"].elo = r + 16
              /\ (users'["a"].elo - r) + (users'["b"].elo - r) = 0]_vars

\* 1200 against 1200 with the score 10-5
C20_Witness ==
    /\ game.status = "completed"
    /\ game.results.team1Score = 10
    /\ game.results.team2Score = 5
    /\ users["a"].elo = DEFAULT_ELO + 16
    /\ users["b"].elo = DEFAULT_ELO - 16

\* C21: the tier shown for a rating is Bronze below 1000, Silver for
\* 1000..1199, Gold for 1200..1399, Platinum for 1400..1599, Diamond for
\* 1600..1799, Master for 1800..1999 and Grandmaster from 2000 on, and it is
\* one of these seven
C21_Tiers ==
    display.tier # "none" =>
        LET elo == users["a"].elo
            tier == display.tier
        IN /\ tier \in {"Bronze", "Silver", "Gold", "Platinum", "Diamond",
                         "Master", "Grandmaster"}
           /\ tier = "Bronze" <=> elo < 1000
           /\ tier = "Silver" <=> elo \in 1000 .. 1199
           /\ tier = "Gold" <=> elo \in 1200 .. 1399
           /\ tier = "Platinum" <=> elo \in 1400 .. 1599
           /\ tier = "Diamond" <=> elo \in 1600 .. 1799
           /\ tier = "Master" <=> elo \in 1800 .. 1999
           /\ tier = "Grandmaster" <=> elo >= 2000

\* The badge of a rating of exactly 2000
C21_Witness ==
    /\ display.tier = "Grandmaster"
    /\ users["a"].elo = 2000

-----------------------------------------------------------------------------
(* Properties of the check-in window *)

\* C22: the window of w minutes is open exactly from w minutes before the
\* start to w minutes after it, both ends included; 20 minutes before the
\* start it is closed for w = 15 and open for w = 30; and while it is open
\* the time until it opens is 0
C22_Window ==
    display.windowMinutes # 0 =>
        LET w == display.windowMinutes
        IN /\ display.canCheckIn <=>
                 (game.startTime - w <= now /\ now <= game.startTime + w)
           /\ (game.startTime - now = 20 /\ w = 15) => ~display.canCheckIn
           /\ (game.startTime - now = 20 /\ w = 30) => display.canCheckIn
           /\ display.canCheckIn => display.timeUntil = 0

\* 20 minutes before the start with a window of 30 minutes
C22_Witness ==
    /\ game.startTime - now = 20
    /\ display.windowMinutes = 30
    /\ display.canCheckIn
    /\ display.timeUntil = 0

-----------------------------------------------------------------------------
(* Progress of the confirmation *)

\* C23: once more than half of the participants of a pending_results game
\* have confirmed and every participant has a profile, the game eventually
\* becomes completed
C23_MajorityCompletes ==
    (/\ game.status = "pending_results"
     /\ 2 * Cardinality(game.results.confirmedBy) > TotalPlayers
     /\ \A p \in Participants(game.results) : users[p].exists)
        ~> (game.status = "completed")

-----------------------------------------------------------------------------
(* Repeated and overlapping rating commits *)

\* C24: a run of the rating commit on a game that is already completed
\* changes no profile
C24_CommitOnCompletedIsNoOp ==
    [][\A page \in Pages :
          (CommitStep(page) /\ game.status = "completed") => users' = users]_vars

\* The profiles after the commit of results on the profiles us
ApplyCommit(us, results) == transactionWrites(us, us, results)

BothCompleted ==
    /\ game.status = "completed"
    /\ \A g \in nextGames : g.status = "completed"

\* C25: when the commits of two games that share player a have both been
\* applied, the profiles are those of the two commits applied one after the
\* other in one of the two orders, and a has been counted twice
C25_NoLostUpdate ==
    BothCompleted =>
        LET initial == [u \in Users |-> NewUser]
            first == game.results
            second == gameDoc(NextGameId).results
        IN /\ \/ users = ApplyCommit(ApplyCommit(initial, first), second)
              \/ users = ApplyCommit(ApplyCommit(initial, second), first)
           /\ users["a"].gamesPlayed = 2
           /\ users["a"].gamesAttended = 2

\* Both games completed after a won both, the second commit having been
\* computed from the rating the first produced
C25_Witness ==
    /\ BothCompleted
    /\ game.results.team2Score > game.results.team1Score
    /\ gameDoc(NextGameId).results.team1Score > gameDoc(NextGameId).results.team2Score
    /\ users["a"].elo > DEFAULT_ELO + 16

-----------------------------------------------------------------------------
(* Failures during the start *)

\* C26: a start that still has no-shows to penalise is not ended by a
\* failed update: the handler goes on to the remaining no-shows and to the
\* write of in_progress
C26_FailureDoesNotBlockStart ==
    [][\A page \in Pages :
          (handler[page].at = "start" /\ handler[page].todo # <<>>) =>
              handler'[page].at # "idle"]_vars

-----------------------------------------------------------------------------
(* Properties of the recurrence *)

\* C27: a next occurrence starts exactly 7 days (weekly) or 14 days
\* (biweekly) after the occurrence it was created from, has its host, sport,
\* location, duration, maxPlayers, skillLevel and minElo, is open, has the
\* host as its only player and nobody checked in; a game without recurrence
\* gets no next occurrence
C27_NextOccurrence ==
    /\ [][Cardinality(nextGames') > Cardinality(nextGames) =>
             \E n \in nextGames' :
                LET o == latestOccurrence
                IN /\ nextGames' = nextGames \cup {n}
                   /\ n \notin nextGames
                   /\ o.recurrence.frequency \in {"weekly", "biweekly"}
                   /\ n.startTime = o.startTime +
                         (IF o.recurrence.frequency = "weekly" THEN 7 ELSE 14) * 24 * 60
                   /\ n.hostId = o.hostId
                   /\ n.sport = o.sport
                   /\ n.location = o.location
                   /\ n.duration = o.duration
                   /\ n.maxPlayers = o.maxPlayers
                   /\ n.skillLevel = o.skillLevel
                   /\ n.minElo = o.minElo
                   /\ n.status = "open"
                   /\ n.players = <<o.hostId>>
                   /\ n.checkedIn = {}]_vars
    /\ [](game.recurrence.frequency = "none" => nextGames = {})

\* The next occurrence of a biweekly soccer game with a rating requirement
C27_Witness ==
    \E n \in nextGames :
        /\ game.recurrence.frequency = "biweekly"
        /\ n.startTime = game.startTime + 14 * 24 * 60
        /\ n.sport = "soccer"
        /\ n.minElo = MinElo
        /\ n.status = "open"

\* C28: every occurrence of the chain is linked to the original game
C28_ParentIsOriginal ==
    \A n \in nextGames : n.recurrence.parentGameId = game.gameId

\* A chain of three occurrences, the last one created from the second
C28_Witness ==
    /\ Cardinality(nextGames) = 3
    /\ \A n \in nextGames : n.recurrence.parentGameId = GameId

\* C29: for the occurrence that would be created next, nothing is created
\* exactly when its start is more than 30 days after the clock, and no
\* occurrence created starts more than 30 days after the clock
C29_DriftGuard ==
    LET o == latestOccurrence
        nextStart == o.startTime +
                       (IF o.recurrence.frequency = "weekly" THEN 7 ELSE 14) * 24 * 60
    IN /\ o.recurrence.frequency # "none" =>
             (createNextRecurringGame(o, now, NextGameId) = {}
                 <=> nextStart > now + 30 * 24 * 60)
       /\ \A n \in nextGames : n.startTime <= now + 30 * 24 * 60

\* An occurrence that starts exactly 30 days after the clock has been
\* created and is over, and its successor is not created
C29_Witness ==
    /\ \E n \in nextGames : n.startTime = now + 30 * 24 * 60
    /\ latestOccurrence.status \in {"completed", "cancelled"}
    /\ createNextRecurringGame(latestOccurrence, now, NextGameId) = {}

-----------------------------------------------------------------------------
(* Properties of a team match *)

\* Math.round of the mean rating of the players in team
RoundedAverage(team) ==
    (2 * SumOver([p \in team |-> users[p].elo], team) + Cardinality(team))
        \div (2 * Cardinality(team))

\* C30: processGameResults returns a rating for the players of the two
\* teams and for nobody else; each player of team 1 gets the rating
\* calculated from the player's own rating, the rounded average of team 2
\* and the outcome of team 1, and each player of team 2 the one calculated
\* from the rounded average of team 1 and the opposite outcome
C30_ProcessMatch ==
    [][(game.status = "in_progress" /\ game'.status = "completed") =>
          LET r == game'.results
              team1Actual == IF r.team1Score > r.team2Score THEN 2
                             ELSE IF r.team1Score < r.team2Score THEN 0 ELSE 1
          IN /\ DOMAIN ratingsFrom(users, r) = r.team1 \cup r.team2
             /\ \A p \in Users \ (r.team1 \cup r.team2) : users'[p] = users[p]
             /\ \A p \in r.team1 :
                   users'[p].elo =
                      calculateNewElo(users[p].elo,
                          calculateExpectedScore(users[p].elo, RoundedAverage(r.team2)),
                          team1Actual)
             /\ \A p \in r.team2 :
                   users'[p].elo =
                      calculateNewElo(users[p].elo,
                          calculateExpectedScore(users[p].elo, RoundedAverage(r.team1)),
                          2 - team1Actual)]_vars

\* Two against one with a user sitting out: the winners have gained and the
\* loser has lost
C30_Witness ==
    /\ game.status = "completed"
    /\ game.results.team1 = {"h", "a"}
    /\ game.results.team2 = {"b"}
    /\ game.results.team1Score > game.results.team2Score
    /\ users["h"].elo > DEFAULT_ELO + MaxRatingSteps * TeamRatingStep
    /\ users["a"].elo > DEFAULT_ELO
    /\ users["b"].elo < DEFAULT_ELO
    /\ users["c"].elo = DEFAULT_ELO + TeamRatingStep

-----------------------------------------------------------------------------
(* Properties of the team average *)

\* C31: the average of no ratings is 0; otherwise it is the integer nearest
\* to the arithmetic mean of the ratings (the upper one when the mean lies
\* halfway), so that a single rating is returned unchanged
C31_TeamAverage ==
    display.teamAverage >= 0 =>
        LET team == display.team
            n == Cardinality(team)
            sum == SumOver([p \in team |-> users[p].elo], team)
            average == display.teamAverage
        IN /\ team = {} => average = 0
           /\ team # {} =>
                 /\ 2 * n * average > 2 * sum - n
                 /\ 2 * n * average <= 2 * sum + n
           /\ \A p \in team : team = {p} => average = users[p].elo

\* The average of 1200 and 1400
C31_Witness ==
    /\ display.team = {"a", "b"}
    /\ users["a"].elo = 1200
    /\ users["b"].elo = 1400
    /\ display.teamAverage = 1300

\* C32: a boost gives min(100, score + 1): the score plus 1 below 100, 100 for
\* 99 and for 100, never more than 100, and 100 again once 100 is reached;
\* the scores of the other players stay as they are
C32_Boost ==
    [][display'.boosts = display.boosts + 1 =>
           LET u == display'.boosted
               score == users[u].reliabilityScore
               boosted == users'[u].reliabilityScore
           IN /\ boosted = IF score + 1 < 100 THEN score + 1 ELSE 100
              /\ score < 100 => boosted = score + 1
              /\ score \in {99, 100} => boosted = 100
              /\ boosted <= 100
              /\ \A v \in Users \ {u} : users'[v] = users[v]]_vars

\* A score that started at 98 is at 100 after three boosts
C32_Witness ==
    /\ display.boosts = 3
    /\ display.boosted = "a"
    /\ users["a"].reliabilityScore = 100
    /\ users["b"].reliabilityScore = 100

\* C33: the reliability score of every profile is an integer in 0 .. 100: it
\* is 100 for a profile that was never penalised and stays in the range
\* after any number of no-show penalties
C33_ReliabilityInRange ==
    \A u \in Users :
        /\ users[u].reliabilityScore \in 0 .. 100
        /\ (users[u].exists /\ users[u].gamesPlayed = 0) => users[u].reliabilityScore = 100

\* One player was penalised 44 times, another never
C33_Witness ==
    /\ users["a"].gamesPlayed = 44
    /\ users["a"].reliabilityScore = 10
    /\ users["b"].gamesPlayed = 0
    /\ users["b"].reliabilityScore = 100

-----------------------------------------------------------------------------
(* What an operation leaves alone in the profiles *)

\* The run of the rating commit on page for results that name player u
CommitOf(page, u) ==
    /\ CommitStep(page)
    /\ u \in Participants(handler[page].results)

\* The penalty write of handleStartGame on page for the no-show u
PenaltyOf(page, u) ==
    /\ handler[page].at = "start"
    /\ handler'[page].at = "incrementUserGames"
    /\ Head(handler[page].todo).id = u

\* C34: a rating changes only in a run of the rating commit that names the
\* player, which leaves the rating of the other sport as it is, and a
\* reliability score changes only in the penalty write of a start; every
\* other step (join, leave, check-in, cancel, submit, a confirmation)
\* leaves the ratings and the reliability scores of all profiles unchanged
C34_ProfileFrame ==
    [][\A u \in Users :
           /\ users'[u].elo # users[u].elo => \E page \in Pages : CommitOf(page, u)
           /\ users'[u].otherElo = users[u].otherElo
           /\ users'[u].reliabilityScore # users[u].reliabilityScore =>
                  \E page \in Pages : PenaltyOf(page, u)]_vars

\* A no-show was penalised at the start and a later commit changed the
\* rating of a participant
C34_Witness ==
    /\ game.status = "completed"
    /\ users["a"].reliabilityScore < DEFAULT_RELIABILITY_SCORE
    /\ users["h"].elo # DEFAULT_ELO
    /\ users["h"].otherElo = DEFAULT_ELO

-----------------------------------------------------------------------------
(* Properties of the statistics *)

\* The games of the history that list the player in a team
CountedGames(games, userId) ==
    {i \in 1 .. Len(games) :
        /\ games[i].results.present
        /\ userId \in games[i].results.team1 \cup games[i].results.team2}

\* The score of the player's team minus the score of the opponents
ScoreMargin(g, userId) ==
    IF userId \in g.results.team1
    THEN g.results.team1Score - g.results.team2Score
    ELSE g.results.team2Score - g.results.team1Score

\* C35: computeStats counts every game whose result record lists the player
\* in a team once, as a win, a draw or a loss by the two scores, and skips
\* the others; wins + draws + losses = totalGames = basketballGames +
\* soccerGames = the length of the history, and winRate is 0 without games
\* and otherwise 100 * wins / totalGames rounded to the nearest integer
C35_Stats ==
    display.stats.userId # "none" =>
        LET stats == display.stats
            games == display.games
            counted == CountedGames(games, stats.userId)
        IN /\ stats.wins = Cardinality({i \in counted : ScoreMargin(games[i], stats.userId) > 0})
           /\ stats.draws = Cardinality({i \in counted : ScoreMargin(games[i], stats.userId) = 0})
           /\ stats.losses = Cardinality({i \in counted : ScoreMargin(games[i], stats.userId) < 0})
           /\ stats.totalGames = stats.wins + stats.draws + stats.losses
           /\ stats.totalGames = Cardinality(counted)
           /\ stats.totalGames = stats.basketballGames + stats.soccerGames
           /\ stats.totalGames = Len(stats.gameHistory)
           /\ stats.winRate = IF stats.totalGames = 0 THEN 0
                               ELSE (200 * stats.wins + stats.totalGames)
                                        \div (2 * stats.totalGames)

-----------------------------------------------------------------------------
(* Properties of the friend system *)

\* The documents of the collection
FriendEdges == {i \in 1 .. Len(friends) : friends[i].exists}

\* C36: there is at most one friend document per ordered pair (follower,
\* followed user) and none from a user to themselves, whatever follow and
\* unfollow calls have run, at the same time or not; a follow of a user
\* already followed, or of oneself, adds nothing
C36_OneEdgePerPair ==
    /\ [](\A i \in FriendEdges :
             /\ friends[i].followerId # friends[i].followingId
             /\ \A j \in FriendEdges :
                    (/\ friends[j].followerId = friends[i].followerId
                     /\ friends[j].followingId = friends[i].followingId) => j = i)
    /\ [][Len(friends') > Len(friends) =>
             LET new == friends'[Len(friends')]
             IN /\ new.followerId # new.followingId
                /\ friendDocs(new.followerId, new.followingId) = {}]_vars

-----------------------------------------------------------------------------
(* Properties of two starts with the same no-show *)

\* C37: when a player is a no-show in two games and both games have been
\* started, both penalties and both counts have taken effect: the player's
\* reliability is the penalty of the penalty of the score before the starts
\* and gamesPlayed is 2 more than before
C37_BothPenaltiesCount ==
    (game.status = "in_progress" /\ gameDoc(NextGameId).status = "in_progress") =>
        /\ users["a"].reliabilityScore =
               calculateReliabilityPenalty(
                   calculateReliabilityPenalty(NewUser.reliabilityScore))
        /\ users["a"].gamesPlayed = NewUser.gamesPlayed + 2

-----------------------------------------------------------------------------
(* Properties of the game counters *)

\* C38: the one game of the scenario adds at most 1 to the gamesPlayed of a
\* player (as a no-show at the start or as a participant at the rating
\* commit, never both, and never twice), and no profile has more games
\* attended than games played
C38_CountedOncePerGame ==
    \A u \in Users :
        /\ users[u].gamesPlayed <= NewUser.gamesPlayed + 1
        /\ users[u].gamesAttended <= users[u].gamesPlayed

-----------------------------------------------------------------------------
(* Properties of the result record *)

\* C39: once the game is pending_results, the teams and the scores of its
\* result record never change and confirmedBy only grows: no submit-results
\* call replaces the record or resets the confirmations
C39_ResultsStayAsSubmitted ==
    [][game.status \in {"pending_results", "completed"} =>
           /\ game'.results.team1 = game.results.team1
           /\ game'.results.team2 = game.results.team2
           /\ game'.results.team1Score = game.results.team1Score
           /\ game'.results.team2Score = game.results.team2Score
           /\ game.results.confirmedBy \subseteq game'.results.confirmedBy]_vars

====
